---- MODULE Spec2Model ----
(***************************************************************************)
(* SolWaifu: procedural avatar animation (AnimationController), the        *)
(* expression sink (VRMLoader) and the deferred reverts of timed reactions. *)
(*                                                                         *)
(* Numbers.  Expression weights, intensities and velocities are fixed      *)
(* point, in thousandths (Scale).  Times are in TimeUnit-ths of a second,  *)
(* so that a 60 Hz frame (1/60 s) and every millisecond delay of the       *)
(* source are whole numbers.  Angles are in milliradians.  Divisions       *)
(* truncate toward zero.  The IEEE value NaN is kept as the separate value *)
(* NaN, with the JavaScript rules the code relies on: arithmetic on NaN    *)
(* gives NaN, every comparison with NaN is false, Math.min and Math.max    *)
(* return NaN when an argument is NaN, and 0/0 is NaN.                     *)
(***************************************************************************)
EXTENDS Integers, Sequences, FiniteSets, Bags, TLC

Scale == 10 * 100
TimeUnit == 3 * Scale
Ms(n) == 3 * n
NaN == 0 - 999999999

IsNaN(x) == x = NaN
Div(a, b) == IF a >= 0 THEN a \div b ELSE 0 - ((0 - a) \div b)
Abs(x) == IF x < 0 THEN 0 - x ELSE x
Min(a, b) == IF a < b THEN a ELSE b
Max(a, b) == IF a > b THEN a ELSE b

\* Math.min / Math.max of JavaScript: NaN when either argument is NaN.
MathMin(a, b) == IF IsNaN(a) \/ IsNaN(b) THEN NaN ELSE Min(a, b)
MathMax(a, b) == IF IsNaN(a) \/ IsNaN(b) THEN NaN ELSE Max(a, b)
\* a > b of JavaScript: false when either side is NaN.
Gt(a, b) == ~IsNaN(a) /\ ~IsNaN(b) /\ a > b
Lt(a, b) == ~IsNaN(a) /\ ~IsNaN(b) /\ a < b
\* a * b / Scale: the product of two fixed-point numbers.
Mul(a, b) == IF IsNaN(a) \/ IsNaN(b) THEN NaN ELSE Div(a * b, Scale)
Add(a, b) == IF IsNaN(a) \/ IsNaN(b) THEN NaN ELSE a + b

(***************************************************************************)
(* Math.sin, argument in milliradians, result in thousandths: range        *)
(* reduction to [0, pi] and Bhaskara's rational approximation              *)
(* 16 x (pi - x) / (5 pi^2 - 4 x (pi - x)), exact to 0.002.                *)
(***************************************************************************)
PiMilli == 3141 + 1
TwoPiMilli == 6282 + 1
SinHalf(x) == LET p == x * (PiMilli - x)
              IN  Div(16 * p, Div(5 * PiMilli * PiMilli - 4 * p, Scale))
Sin(x) == LET r == x % TwoPiMilli
          IN  IF r <= PiMilli THEN SinHalf(r) ELSE 0 - SinHalf(r - PiMilli)

\* smoothstep(t) = t*t*(3 - 2t) on t clamped to [0,1]
smoothstep(t) == LET c == Max(0, Min(Scale, t))
                 IN  Div(Div(c * c, Scale) * (3 * Scale - 2 * c), Scale)

\* smootherstep(t) = t^3 (t (6t - 15) + 10) on t clamped to [0,1]
smootherstep(t) == LET c == Max(0, Min(Scale, t))
                       c3 == Div(Div(c * c, Scale) * c, Scale)
                       in == Div(c * (6 * c - 15 * Scale), Scale) + 10 * Scale
                   IN  Div(c3 * in, Scale)


(***************************************************************************)
(* smoothDamp (Game Programming Gems 4).  smoothTime is in milliseconds,   *)
(* deltaTime in time units; value and velocity in thousandths (per         *)
(* second).  maxSpeed is Infinity at every call site, so the speed clamp   *)
(* leaves change and target as they are.  x = omega * deltaTime and the    *)
(* rational approximation of exp(-x) are kept to four decimals.            *)
(***************************************************************************)
Fine == 10 * Scale
SmoothDampX(smoothTime, deltaTime) == Div(2 * Fine * deltaTime, 3 * smoothTime)
SmoothDampExp(x) ==
    LET xc   == Div(x, Scale)
        poly == IF x <= 4 * Fine
                THEN Fine + x + Div(48 * Div(x * x, 100), Fine)
                          + Div(235 * Div(Div(x * x, Fine) * x, Fine), Scale)
                \* beyond x = 4 the powers are taken of x to one decimal, which
                \* keeps them within the integer range
                ELSE Fine + x + 48 * xc * xc + 235 * Div(xc * xc * xc, 100)
    IN  IF poly = 0 THEN NaN ELSE Div(Fine * Fine, poly)

\* smoothDamp of src/unnamed/part_001: the same step without the overshoot
\* guard (and without the floor on smoothTime, which no call site reaches)
smoothDampPlain(current, target, velocity, smoothTime0, deltaTime) ==
    LET smoothTime == Max(1, smoothTime0)
        ex     == SmoothDampExp(SmoothDampX(smoothTime, deltaTime))
        bad    == IsNaN(current) \/ IsNaN(target) \/ IsNaN(velocity) \/ IsNaN(ex)
        change == current - target
        oc     == Div(2 * Scale * change, smoothTime)
        temp   == Div((velocity + oc) * deltaTime, TimeUnit)
    IN  [value    |-> IF bad THEN NaN ELSE target + Div((change + temp) * ex, Fine),
         velocity |-> IF bad THEN NaN
                      ELSE Div((velocity - Div(2 * Scale * temp, smoothTime)) * ex,
                               Fine)]

smoothDamp(current, target, velocity, smoothTime0, deltaTime) ==
    LET step == smoothDampPlain(current, target, velocity, smoothTime0, deltaTime)
        \* (originalTo - current > 0) === (newValue > originalTo)
        over == Gt(Add(target, IF IsNaN(current) THEN NaN ELSE 0 - current), 0)
                = Gt(step.value, target)
    IN  IF over /\ ~IsNaN(target)
        THEN [value |-> target, velocity |-> IF deltaTime = 0 THEN NaN ELSE 0]
        ELSE step

(***************************************************************************)
(* The humanoid rig and the expression manager (three-vrm), as far as the  *)
(* code uses them: a rig is the set of joints it has, with or without an   *)
(* expression manager; the manager holds one weight per expression name.   *)
(***************************************************************************)
CoreJoints == {"hips", "spine", "chest", "upperChest", "neck", "head"}
LimbJoints == {"leftShoulder", "rightShoulder", "leftUpperArm", "rightUpperArm",
               "leftLowerArm", "rightLowerArm", "leftHand", "rightHand",
               "leftUpperLeg", "rightUpperLeg", "leftLowerLeg", "rightLowerLeg",
               "leftEye", "rightEye"}
FingerJoints == {"leftThumbProximal", "leftThumbIntermediate", "leftThumbDistal",
                 "leftIndexProximal", "leftIndexIntermediate", "leftIndexDistal",
                 "leftMiddleProximal", "leftMiddleIntermediate", "leftMiddleDistal",
                 "leftRingProximal", "leftRingIntermediate", "leftRingDistal",
                 "leftLittleProximal", "leftLittleIntermediate", "leftLittleDistal",
                 "rightThumbProximal", "rightThumbIntermediate", "rightThumbDistal",
                 "rightIndexProximal", "rightIndexIntermediate", "rightIndexDistal",
                 "rightMiddleProximal", "rightMiddleIntermediate", "rightMiddleDistal",
                 "rightRingProximal", "rightRingIntermediate", "rightRingDistal",
                 "rightLittleProximal", "rightLittleIntermediate", "rightLittleDistal"}
Joints == CoreJoints \cup LimbJoints \cup FingerJoints
EssentialJoints == {"hips", "spine", "head"}

Channels == {"happy", "angry", "sad", "relaxed", "surprised", "aa", "ih", "ou",
             "ee", "oh", "blink", "blinkLeft", "blinkRight"}
EmotionChannels == {"happy", "sad", "surprised", "angry"}
NoWeights == [c \in Channels |-> 0]
Null == [joints |-> {}, manager |-> FALSE, loaded |-> FALSE]

VARIABLES
    vrm,          \* VRMLoader.vrm: Null, or the loaded rig
    mgr,          \* vrm.expressionManager: weight of each expression
    lastOp,       \* history: the VRMLoader method called last, and whether a
                  \* channel held a non-zero weight when it was called
    ctl,          \* which AnimationController variant is running
    initialized,  \* AnimationController.initialized
    bones,        \* AnimationController.bones: the joints found when caching
    pose,         \* per joint: the frame whose values its rotation holds
    time,         \* AnimationController.time (elapsedTime of the last tick)
    frameCount,   \* AnimationController.frameCount
    ctrl,         \* state, isTalking, talkTime, expression.current/targetIntensity
    anim,         \* expressionIntensity/Vel, talkIntensity/Vel, blinkValue
    phase,        \* breath.phase, idle.phase, secondary.phase (milliradians)
    blink,        \* timer, interval, isBlinking, progress, isDoubleBlink
    timers,       \* pending setTimeout callbacks, in the order they were set
    laughs,       \* start times of the running triggerLaugh loops
    now,          \* wall clock
    calls,        \* history: number of public API calls so far
    updates,      \* history: number of update() calls so far
    cacheBuilds,  \* history: number of times the bone cache was assigned
    lastTick,     \* history of the last animated tick: the deltaTime passed, the
                  \* frame time handed to each stage, the expression it showed
                  \* and the emotion channels it cleared
    simTime,      \* history: simulated time fed to the blink machine
    blinkStarts,  \* history: number of blinks started
    lastGap,      \* history: simulated time between the last two blink starts
    frameDt,      \* frame period of a fixed-rate run of the blink machine
    damp,         \* one damped channel driven alone: its inputs and last result
    timing,       \* AnimationController.timing: smooth time per role (ms)
    look,         \* lookAtTarget and smoothLookAt (millimetres)
    target,       \* AnimationController.target: head and neck pitch (X) and
                  \* yaw (Y), in milliradians
    layer,        \* the joints each playing clip drives, and the joints the clip
                  \* layer and the procedural layer wrote in the last frame
    proxy,        \* the chat proxy: Date.now(), rateLimitStore, the log of the
                  \* requests it let through and the answer to the last one
    voice,        \* VoiceController: the key, and how far the promise of the
                  \* last speak() has come
    chat          \* ChatController: conversationHistory (the roles), isProcessing,
                  \* voiceEnabled, the input field, the send button, the
                  \* requests in flight and the replies being typed out

vars == <<vrm, mgr, lastOp, ctl, initialized, bones, pose, time, frameCount, ctrl,
          anim, phase, blink, timers, laughs, now, calls, updates, cacheBuilds,
          lastTick, simTime, blinkStarts, lastGap, frameDt, damp, timing, look, target, layer,
          proxy, voice, chat>>
\* what no method of the loader or the controller assigns
otherVars == <<damp, timing, proxy, voice, chat>>
loaderVars == <<vrm, mgr, lastOp>>
ctrlVars == <<ctl, initialized, bones, pose, time, frameCount, ctrl, anim, phase,
              blink, timers, laughs, now, calls, updates, cacheBuilds, lastTick,
              simTime, blinkStarts, lastGap, frameDt, look, target, otherVars>>

HasManager(v) == v # Null /\ v.manager

\* VRMLoader.setExpression(name, value)
VRMLoader_setExpression(v, m, name, value) ==
    IF ~HasManager(v) THEN m
    ELSE [m EXCEPT ![name] = MathMax(0, MathMin(Scale, value))]

ResetAllButBlinkLeft(v, m) ==
    IF ~HasManager(v) THEN m
    ELSE [c \in Channels |-> IF c = "blinkLeft" THEN m[c] ELSE 0]
ResetAllButSad(v, m) ==
    IF ~HasManager(v) THEN m
    ELSE [c \in Channels |-> IF c = "sad" THEN m[c] ELSE 0]

\* VRMLoader.resetExpressions()
VRMLoader_resetExpressions(v, m) ==
    IF ~HasManager(v) THEN m ELSE [c \in Channels |-> 0]

setHappy(v, m, x) == VRMLoader_setExpression(v, m, "happy", x)
setSad(v, m, x) == VRMLoader_setExpression(v, m, "sad", x)
setAngry(v, m, x) == VRMLoader_setExpression(v, m, "angry", x)
setSurprised(v, m, x) == VRMLoader_setExpression(v, m, "surprised", x)
setMouthOpen(v, m, x) == VRMLoader_setExpression(v, m, "aa", x)
setBlink(v, m, x) ==
    VRMLoader_setExpression(v,
        VRMLoader_setExpression(v,
            VRMLoader_setExpression(v, m, "blink", x), "blinkLeft", x),
        "blinkRight", x)
setWink(v, m, isLeft) ==
    VRMLoader_setExpression(v,
        VRMLoader_setExpression(v, m, "blinkLeft", IF isLeft THEN Scale ELSE 0),
        "blinkRight", IF isLeft THEN 0 ELSE Scale)


(***************************************************************************)
(* AnimationController (smoothDamp variant): public API.                   *)
(* c is the record <<state, isTalking, talkTime, current, targetIntensity>>.*)
(***************************************************************************)
States == {"idle", "thinking", "talking", "flirty"}
Expressions == {"neutral", "happy", "sad", "surprised", "angry"}
Reactions == {"excited", "confused", "flirty", "thinking", "laugh", "shy"}

setExpression(c, name, intensity) ==
    [c EXCEPT !.current = name, !.targetIntensity = intensity]

\* a state change that assigns the state and nothing else
SetStateOnly(c, newState) == [c EXCEPT !.state = newState]
setState(c, newState) ==
    IF c.state = newState THEN c
    ELSE CASE newState = "talking" ->
                [c EXCEPT !.state = newState, !.isTalking = TRUE, !.talkTime = 0,
                          !.current = "happy", !.targetIntensity = 500]
           [] newState = "thinking" ->
                [c EXCEPT !.state = newState, !.isTalking = FALSE,
                          !.current = "neutral", !.targetIntensity = 300]
           [] newState = "flirty" ->
                [c EXCEPT !.state = newState, !.isTalking = FALSE,
                          !.current = "happy", !.targetIntensity = 700]
           [] OTHER ->
                [c EXCEPT !.state = newState, !.isTalking = FALSE,
                          !.current = "neutral", !.targetIntensity = 250]

\* A setTimeout callback: "neutral" is () => setExpression('neutral', 0.25),
\* "idle" is () => setState('idle').
Timer(cb, delayMs) == [cb |-> cb, due |-> now + Ms(delayMs), epoch |-> calls + 1]
\* a callback that leaves the controller as the pulse set it
KeepsPulse(c, cb) == c
RunCallback(c, cb) ==
    IF cb = "idle" THEN setState(c, "idle") ELSE setExpression(c, "neutral", 250)

\* stopTalking(): the controller after the call, and the timer it sets
stopTalking(c) == setExpression(setState(c, "idle"), "happy", 300)
stopTalkingTimers == <<Timer("neutral", 500)>>

\* playReaction(type): the controller after the call, the timers it sets and
\* whether it starts a laugh loop
playReaction(c, type) ==
    CASE type = "excited"  -> setExpression(c, "happy", 900)
      [] type = "confused" -> setExpression(c, "surprised", 600)
      [] type = "flirty"   -> setState(c, "flirty")
      [] type = "thinking" -> setState(c, "thinking")
      [] type = "laugh"    -> setExpression(c, "happy", 1000)
      [] type = "shy"      -> setExpression(c, "happy", 600)
      [] OTHER             -> c
playReactionTimers(type) ==
    CASE type = "excited"  -> <<Timer("neutral", 1500)>>
      [] type = "confused" -> <<Timer("neutral", 1000)>>
      [] type = "flirty"   -> <<Timer("idle", 2500)>>
      [] type = "shy"      -> <<Timer("neutral", 1200)>>
      [] OTHER             -> << >>


(***************************************************************************)
(* triggerLaugh(): the mouth value of one animateLaugh frame, elapsed      *)
(* milliseconds after the loop started (progress < 1).                     *)
(***************************************************************************)
LaughDuration == 1500
LaughMouth(elapsedMs) ==
    LET progress == Div(elapsedMs * Scale, LaughDuration)
        decay    == Scale - smoothstep(progress)
        bounce   == Div(Sin(elapsedMs * 18), 2) + 500
        shake    == Div(Sin(elapsedMs * 25) * 150, Scale)
    IN  Div((Div(bounce * 400, Scale) + 200 + shake) * decay, Scale)

\* One animateLaugh frame at wall-clock time t of the loop started at start.
LaughRunning(start, t) == Div(t - start, 3) < LaughDuration
animateLaugh(v, m, start, t) ==
    IF LaughRunning(start, t)
    THEN setMouthOpen(v, m, MathMax(0, LaughMouth(Div(t - start, 3))))
    ELSE setMouthOpen(v, m, 0)

(***************************************************************************)
(* The blink machines.  progress is kept in time units times the blink     *)
(* speed, so that 1.0 is ProgressOne; r (and r2) are Math.random() draws   *)
(* in thousandths.  Each returns the new blink record, the new blinkValue, *)
(* the expression weights after its setBlink calls and whether a blink     *)
(* started.                                                                *)
(***************************************************************************)
ProgressOne == TimeUnit
BlinkSpeed == 12
CloseRatio == 300
Ratio(a, b) == Div(a * Scale, b)
IntervalWithoutBase(baseMs, spanMs, r) == Div(r * Ms(spanMs), Scale)
RandomInterval(baseMs, spanMs, r) == Ms(baseMs) + Div(r * Ms(spanMs), Scale)

BlinkPhase(b) ==
    IF ~b.isBlinking THEN "Open"
    ELSE IF b.progress * Scale < CloseRatio * ProgressOne THEN "Closing"
    ELSE "Opening"

\* a blink machine that draws its interval when the blink ends instead
RedrawOnOpen(b, blinkValue, v, m, dt, r) ==
    LET timer    == b.timer + dt
        progress == b.progress + dt * BlinkSpeed
    IN  IF b.isBlinking
        THEN IF progress >= ProgressOne
             THEN [blink |-> [b EXCEPT !.timer = timer, !.isBlinking = FALSE,
                                       !.interval = RandomInterval(2500, 4000, r),
                                       !.progress = 0],
                   blinkValue |-> 0, mgr |-> setBlink(v, m, 0), started |-> FALSE]
             ELSE [blink |-> [b EXCEPT !.timer = timer, !.progress = progress],
                   blinkValue |-> blinkValue, mgr |-> m, started |-> FALSE]
        ELSE IF timer >= b.interval
        THEN [blink |-> [b EXCEPT !.timer = 0, !.isBlinking = TRUE,
                                  !.progress = 0],
              blinkValue |-> blinkValue, mgr |-> m, started |-> TRUE]
        ELSE [blink |-> [b EXCEPT !.timer = timer], blinkValue |-> blinkValue,
              mgr |-> m, started |-> FALSE]

\* smoothDamp controller: src/netlify/functions/chat.js
updateBlinking(b, blinkValue, v, m, dt, r) ==
    LET timer    == b.timer + dt
        progress == b.progress + dt * BlinkSpeed
        closeAt  == Div(CloseRatio * ProgressOne, Scale)
        value    == IF progress < closeAt
                    THEN smootherstep(Ratio(progress, closeAt))
                    ELSE Scale - smootherstep(Ratio(progress - closeAt,
                                                    ProgressOne - closeAt))
        faded    == Div(blinkValue * 85, 100)
    IN  IF b.isBlinking
        THEN IF progress >= ProgressOne
             THEN [blink |-> [b EXCEPT !.timer = timer, !.isBlinking = FALSE,
                                       !.progress = 0],
                   blinkValue |-> 0, mgr |-> setBlink(v, m, 0), started |-> FALSE]
             ELSE [blink |-> [b EXCEPT !.timer = timer, !.progress = progress],
                   blinkValue |-> value, mgr |-> setBlink(v, m, value),
                   started |-> FALSE]
        ELSE IF timer >= b.interval
        THEN [blink |-> [b EXCEPT !.timer = 0,
                                  !.interval = RandomInterval(2500, 4000, r),
                                  !.isBlinking = TRUE, !.progress = 0],
              blinkValue |-> blinkValue, mgr |-> m, started |-> TRUE]
        ELSE IF blinkValue > 10
        THEN [blink |-> [b EXCEPT !.timer = timer], blinkValue |-> faded,
              mgr |-> setBlink(v, m, faded), started |-> FALSE]
        ELSE [blink |-> [b EXCEPT !.timer = timer], blinkValue |-> blinkValue,
              mgr |-> m, started |-> FALSE]

\* Easing.easeOutQuad and Easing.easeInOutSine of src/js/animations.js
easeOutQuad(t) == Scale - Div((Scale - t) * (Scale - t), Scale)
easeInOutSine(t) ==
    Div(Scale - Sin(Div(PiMilli * t, Scale) + Div(PiMilli, 2)), 2)
DoubleBlinkChance == 150

\* deployed controller: src/js/animations.js
updateBlinkingDeployed(b, blinkValue, v, m, dt, r, r2) ==
    LET timer    == b.timer + dt
        progress == b.progress + dt * 12
        again    == b.isDoubleBlink /\ progress * 10 < 13 * ProgressOne
        ended    == progress >= ProgressOne /\ ~again
        after    == IF ended THEN 0 ELSE progress
        p        == Ratio(after % ProgressOne, ProgressOne)
        blinkVal == IF p < 300 THEN easeOutQuad(Ratio(p, 300))
                    ELSE Scale - easeInOutSine(Ratio(p - 300, 700))
    IN  IF b.isBlinking
        THEN [blink |-> [b EXCEPT !.timer = timer, !.progress = after,
                                  !.isBlinking = ~ended,
                                  !.isDoubleBlink = IF ended THEN FALSE ELSE @],
              blinkValue |-> blinkValue,
              mgr |-> setBlink(v, m, Max(0, Min(Scale, blinkVal))),
              started |-> FALSE]
        ELSE IF timer >= b.interval
        THEN [blink |-> [timer |-> 0, interval |-> RandomInterval(2500, 4000, r),
                         isBlinking |-> TRUE, progress |-> 0,
                         isDoubleBlink |-> r2 < DoubleBlinkChance],
              blinkValue |-> blinkValue, mgr |-> m, started |-> TRUE]
        ELSE [blink |-> [b EXCEPT !.timer = timer], blinkValue |-> blinkValue,
              mgr |-> m, started |-> FALSE]

\* mixer-based controller: src/unnamed/part_000
updateBlinkingMixer(b, blinkValue, v, m, dt, r) ==
    LET timer    == b.timer + dt
        progress == b.progress + dt * 10
        p        == Ratio(progress, ProgressOne)
        blinkVal == IF p < 400 THEN Div(p * 25, 10)
                    ELSE Scale - Div((p - 400) * 167, 100)
    IN  IF b.isBlinking
        THEN IF progress >= ProgressOne
             THEN [blink |-> [b EXCEPT !.timer = timer, !.isBlinking = FALSE,
                                       !.progress = 0],
                   blinkValue |-> blinkValue, mgr |-> m, started |-> FALSE]
             ELSE [blink |-> [b EXCEPT !.timer = timer, !.progress = progress],
                   blinkValue |-> blinkValue,
                   mgr |-> setBlink(v, m, Max(0, blinkVal)), started |-> FALSE]
        ELSE IF timer >= b.interval
        THEN [blink |-> [b EXCEPT !.timer = 0,
                                  !.interval = RandomInterval(2000, 3000, r),
                                  !.isBlinking = TRUE, !.progress = 0],
              blinkValue |-> blinkValue, mgr |-> m, started |-> TRUE]
        ELSE [blink |-> [b EXCEPT !.timer = timer], blinkValue |-> blinkValue,
              mgr |-> m, started |-> FALSE]


(***************************************************************************)
(* AnimationController.update (smoothDamp variant) and its stages.         *)
(***************************************************************************)
MaxDelta == Div(TimeUnit, 10)
ExpressionSmoothTime == 150
BreathRate == 220
IdleSpeed == 60
SecondarySpeed == 25

Unclamped(deltaTime) == deltaTime
\* const dt = Math.min(deltaTime, 0.1)
ClampDelta(deltaTime) == MathMin(deltaTime, MaxDelta)

\* phase += dt * rate * 2 pi
Advance(ph, rate, dt) ==
    ph + Div(Div(dt * rate, 10) * TwoPiMilli, Div(TimeUnit * Scale, 10))
updatePhases(ph, dt) ==
    [breath    |-> Advance(ph.breath, BreathRate, dt),
     idle      |-> Advance(ph.idle, IdleSpeed, dt),
     secondary |-> Advance(ph.secondary, SecondarySpeed, dt)]

\* smoothUpdate: the expression part (expressionIntensity and talkIntensity)
\* this.timing, in milliseconds
TimingTable == [head |-> 120, neck |-> 180, spine |-> 350, hips |-> 400,
                arms |-> 220, shoulders |-> 250, legs |-> 300,
                expression |-> ExpressionSmoothTime]

\* the channels smoothUpdate damps, by the joint they belong to
Axes(joint, axes) == {<<joint, ax>> : ax \in axes}
XYZ == {"X", "Y", "Z"}
ArmJoints == {"leftUpperArm", "leftLowerArm", "leftHand",
              "rightUpperArm", "rightLowerArm", "rightHand"}
SmoothedChannels ==
    Axes("head", XYZ) \cup Axes("neck", XYZ) \cup Axes("hips", XYZ)
    \cup Axes("spine", XYZ) \cup Axes("chest", XYZ)
    \cup Axes("upperChest", {"X", "Y"})
    \cup Axes("leftShoulder", {"Z"}) \cup Axes("rightShoulder", {"Z"})
    \cup UNION {Axes(j, XYZ) : j \in ArmJoints}
    \cup Axes("leftUpperLeg", {"X", "Z"}) \cup Axes("rightUpperLeg", {"X", "Z"})
    \cup Axes("leftLowerLeg", {"X"}) \cup Axes("rightLowerLeg", {"X"})

\* a role table that hands the hips the head's time
HipsAsHead(joint) == IF joint = "hips" THEN "head" ELSE "spine"

\* the entry of this.timing smoothUpdate passes for a channel of the joint
RoleOf(joint) ==
    CASE joint = "head" -> "head"
      [] joint = "neck" -> "neck"
      [] joint = "hips" -> "hips"
      [] joint \in {"spine", "chest", "upperChest"} -> "spine"
      [] joint \in {"leftShoulder", "rightShoulder"} -> "shoulders"
      [] joint \in ArmJoints -> "arms"
      [] OTHER -> "legs"

\* the smoothTime argument of every dampValue call of one smoothUpdate
SmoothTimes(tm) == [ch \in SmoothedChannels |-> tm[RoleOf(ch[1])]]

\* integer square root
RECURSIVE SqrtBetween(_, _, _)
SqrtBetween(n, lo, hi) ==
    IF lo >= hi THEN lo
    ELSE LET mid == Div(lo + hi + 1, 2)
         IN  IF mid * mid <= n THEN SqrtBetween(n, mid, hi)
             ELSE SqrtBetween(n, lo, mid - 1)
Sqrt(n) == SqrtBetween(n, 0, 46340)

\* Math.atan2(y, x) in milliradians; atan(q) for 0 <= q <= 1 taken as
\* q * (pi/4 + 0.273 * (1 - q)), within 4 milliradians of the true value
AtanUnit(q) == Div(q * (785 + Div(273 * (Scale - q), Scale)), Scale)
AtanFirst(y, x) ==
    IF x = 0 /\ y = 0 THEN 0
    ELSE IF y <= x THEN AtanUnit(Div(y * Scale, x))
    ELSE Div(PiMilli, 2) - AtanUnit(Div(x * Scale, y))
atan2(y, x) ==
    IF IsNaN(y) \/ IsNaN(x) THEN NaN
    ELSE LET a == AtanFirst(Abs(y), Abs(x))
             b == IF x < 0 THEN PiMilli - a ELSE a
         IN  IF y < 0 THEN 0 - b ELSE b

\* expLerp(current, target, 0.08, 0.016): Math.pow(0.5, 0.2) = 0.8706
LookDecay == 8706
expLerpLook(current, tgt) ==
    IF IsNaN(current) \/ IsNaN(tgt) THEN NaN
    ELSE tgt + Div((current - tgt) * LookDecay, Fine)

\* bones.head.getWorldPosition(): the head of a standing avatar
HeadPos == <<0, 1400, 0>>

\* calculateHeadTargets(): smooth the look target, turn the direction to it
\* into yaw and pitch, clamp both.  asin(d.y / |d|) is atan2(d.y, |d.xz|).
calculateHeadTargets(lk) ==
    LET sm == [i \in 1..3 |-> expLerpLook(lk.smooth[i], lk.target[i])]
        d  == [i \in 1..3 |-> IF IsNaN(sm[i]) THEN NaN ELSE sm[i] - HeadPos[i]]
        bad   == \E i \in 1..3 : IsNaN(d[i])
        lookY == IF bad THEN NaN ELSE atan2(d[1], d[3])
        lookX == IF bad THEN NaN
                 ELSE 0 - Div(atan2(d[2], Sqrt(d[1] * d[1] + d[3] * d[3])), 2)
    IN  [look   |-> [lk EXCEPT !.smooth = sm],
         target |-> [headY |-> MathMax(0 - 600, MathMin(600, lookY)),
                     headX |-> MathMax(0 - 300, MathMin(400, lookX))]]

\* calculateTargets(dt): the head targets, then the neck targets, which are
\* fractions of the head's smoothed angles as the previous frame left them
calculateTargets(a, lk) ==
    LET hd == calculateHeadTargets(lk)
    IN  [look   |-> hd.look,
         target |-> [headY |-> hd.target.headY, headX |-> hd.target.headX,
                     neckX |-> Mul(a.headX, 300), neckY |-> Mul(a.headY, 350)]]

\* const talkTarget = this.isTalking ? 1 : 0
talkTarget(c) == IF c.isTalking THEN Scale ELSE 0
smoothUpdate(a, t, tm, c, dt) ==
    LET st == SmoothTimes(tm)
        hx == smoothDamp(a.headX, t.headX, a.headVelX, st[<<"head", "X">>], dt)
        hy == smoothDamp(a.headY, t.headY, a.headVelY, st[<<"head", "Y">>], dt)
        e == smoothDamp(a.expressionIntensity, c.targetIntensity, a.expressionVel,
                        tm.expression, dt)
        k == smoothDamp(a.talkIntensity, talkTarget(c),
                        a.talkVel, tm.expression, dt)
    IN  [a EXCEPT !.headX = hx.value, !.headVelX = hx.velocity,
                  !.headY = hy.value, !.headVelY = hy.velocity,
                  !.expressionIntensity = e.value, !.expressionVel = e.velocity,
                  !.talkIntensity = k.value, !.talkVel = k.velocity]

\* initialize(): getNormalizedBoneNode gives null for a joint the rig lacks
CacheBones(v) == v.joints \cap Joints
EssentialFound(bs) == EssentialJoints \subseteq bs

\* applyToBones(): every cached joint gets the values of frame f
applyToBones(ps, bs, f) == [j \in Joints |-> IF j \in bs THEN f ELSE ps[j]]

\* updateTalking(dt): talkTime and the expression weights after it
TalkAngle(t, freqTenths) == Div(t * freqTenths, Div(10 * TimeUnit, Scale))
MouthCap == 550
updateTalking(c, a, v, m, dt) ==
    LET t       == c.talkTime + dt
        base    == Div(Sin(TalkAngle(t, 100)), 2) + 500
        mid     == Div(Sin(TalkAngle(t, 63)) * 300, Scale)
        slow    == Div(Sin(TalkAngle(t, 37)) * 200, Scale)
        pattern == Sin(TalkAngle(t, 18))
        pause   == IF pattern > 200 THEN Scale
                   ELSE Div(smoothstep(Div(pattern + Scale, 2)) * 300, Scale)
        sum     == Div(base * 350, Scale) + Div(mid * 150, Scale)
                   + Div(slow * 100, Scale)
        mouth   == Mul(Div(sum * pause, Scale), a.talkIntensity)
    IN  IF ~c.isTalking \/ Lt(a.talkIntensity, 100)
        THEN [talkTime |-> c.talkTime, mgr |-> m]
        ELSE [talkTime |-> t,
              mgr |-> setMouthOpen(v, m, MathMax(0, MathMin(MouthCap, mouth)))]

\* updateExpressions(dt), after smoothUpdate; tm is this.time
WinkNow(c, tm) ==
    c.state = "flirty" /\ tm % (4 * TimeUnit) > Div(TimeUnit, 2)
                       /\ (tm % (4 * TimeUnit)) * 10 < 12 * TimeUnit
ApplyExpression(c, a, v, m) ==
    CASE c.current = "happy"     -> setHappy(v, m, a.expressionIntensity)
      [] c.current = "sad"       -> setSad(v, m, a.expressionIntensity)
      [] c.current = "surprised" -> setSurprised(v, m, a.expressionIntensity)
      [] c.current = "angry"     -> setAngry(v, m, a.expressionIntensity)
      [] OTHER -> setHappy(v, m, Mul(a.expressionIntensity, 150))

updateExpressions(c, a, b, v, m, tm, dt, r) ==
    LET m1 == ApplyExpression(c, a, v, VRMLoader_resetExpressions(v, m))
        bl == updateBlinking(b, a.blinkValue, v, m1, dt, r)
        tk == updateTalking(c, a, v, bl.mgr, dt)
    IN  [blink |-> bl.blink, blinkValue |-> bl.blinkValue, started |-> bl.started,
         talkTime |-> tk.talkTime,
         mgr |-> IF WinkNow(c, tm) THEN setWink(v, tk.mgr, TRUE) ELSE tk.mgr]


(***************************************************************************)
(* Actions.                                                                *)
(***************************************************************************)
TimerDue == \E i \in 1..Len(timers) : timers[i].due <= now

\* update(deltaTime, elapsedTime) of the render loop: the frame comes
\* deltaTime after the previous one; r is the Math.random() draw of a blink start.
Tick(deltaTime, r) ==
    /\ ctl = "smoothDamp"
    /\ ~TimerDue
    /\ now' = now + Max(deltaTime, 0)
    /\ updates' = updates + 1
    /\ UNCHANGED <<vrm, lastOp, ctl, timers, laughs, calls, frameDt, layer,
                   otherVars>>
    /\ IF vrm = Null
       THEN UNCHANGED <<mgr, initialized, bones, pose, time, frameCount, ctrl, anim,
                        phase, blink, cacheBuilds, lastTick, simTime, blinkStarts,
                        lastGap, look, target>>
       ELSE \E bs \in {IF initialized THEN bones ELSE CacheBones(vrm)} :
            \E dt \in {ClampDelta(deltaTime)} :
            \E hd \in {calculateTargets(anim, look)} :
            \E a1 \in {smoothUpdate(anim, hd.target, timing, ctrl, dt)} :
            \E ex \in {updateExpressions(ctrl, a1, blink, vrm, mgr, now', dt, r)} :
            LET ready == initialized \/ EssentialFound(bs)
                f     == frameCount + 1
            IN  /\ bones' = bs
                /\ cacheBuilds' = cacheBuilds + (IF initialized THEN 0 ELSE 1)
                /\ initialized' = ready
                /\ IF ~ready
                   THEN UNCHANGED <<mgr, pose, time, frameCount, ctrl, anim, phase,
                                    blink, lastTick, simTime, blinkStarts, lastGap,
                                    look, target>>
                   ELSE /\ time' = now'
                        /\ frameCount' = f
                        /\ phase' = updatePhases(phase, dt)
                        /\ look' = hd.look
                        /\ target' = hd.target
                        /\ anim' = [a1 EXCEPT !.blinkValue = ex.blinkValue]
                        /\ pose' = applyToBones(
                              IF initialized THEN pose
                              ELSE applyToBones(pose, bs, frameCount), bs, f)
                        /\ mgr' = ex.mgr
                        /\ blink' = ex.blink
                        /\ ctrl' = [ctrl EXCEPT !.talkTime = ex.talkTime]
                        /\ lastTick' = [deltaTime |-> deltaTime, updatePhases |-> dt,
                                        smoothUpdate |-> dt, updateExpressions |-> dt,
                                        smoothTime |-> SmoothTimes(timing),
                                        expression |-> ctrl.current,
                                        cleared |-> {c \in EmotionChannels :
                                                       mgr[c] # 0 /\ ex.mgr[c] = 0}]
                        /\ simTime' = simTime + dt
                        /\ blinkStarts' = blinkStarts + (IF ex.started THEN 1 ELSE 0)
                        /\ lastGap' = IF ex.started THEN blink.timer + dt ELSE lastGap

ApiUnchanged == UNCHANGED <<vrm, lastOp, ctl, initialized, bones, pose, time,
                            frameCount, anim, phase, blink, now, updates,
                            cacheBuilds, lastTick, simTime, blinkStarts, lastGap,
                            frameDt, look, target, layer, otherVars>>

SetState(newState) ==
    /\ ctrl' = setState(ctrl, newState)
    /\ calls' = calls + 1
    /\ UNCHANGED <<mgr, timers, laughs>>
    /\ ApiUnchanged

SetExpression(name, intensity) ==
    /\ ctrl' = setExpression(ctrl, name, intensity)
    /\ calls' = calls + 1
    /\ UNCHANGED <<mgr, timers, laughs>>
    /\ ApiUnchanged

StopTalking ==
    /\ ctrl' = stopTalking(ctrl)
    /\ timers' = timers \o stopTalkingTimers
    /\ calls' = calls + 1
    /\ UNCHANGED <<mgr, laughs>>
    /\ ApiUnchanged

\* playReaction(type); 'laugh' runs the first animateLaugh frame at once
PlayReaction(type) ==
    /\ ctrl' = playReaction(ctrl, type)
    /\ timers' = timers \o playReactionTimers(type)
    /\ calls' = calls + 1
    /\ IF type = "laugh"
       THEN /\ laughs' = laughs \cup {now}
            /\ mgr' = animateLaugh(vrm, mgr, now, now)
       ELSE UNCHANGED <<mgr, laughs>>
    /\ ApiUnchanged

\* The pending timer that is due first runs (ties: the one set first).
FirstDue(i) ==
    /\ timers[i].due <= now
    /\ \A j \in 1..Len(timers) :
          timers[j].due > timers[i].due \/ (timers[j].due = timers[i].due /\ j >= i)
Without(q, i) == SubSeq(q, 1, i - 1) \o SubSeq(q, i + 1, Len(q))
FireTimer ==
    \E i \in 1..Len(timers) :
       /\ FirstDue(i)
       /\ ctrl' = RunCallback(ctrl, timers[i].cb)
       /\ timers' = Without(timers, i)
       /\ UNCHANGED <<mgr, laughs, calls>>
       /\ ApiUnchanged

\* One requestAnimationFrame callback of a running laugh loop.
LaughFrame ==
    \E start \in laughs :
       /\ mgr' = animateLaugh(vrm, mgr, start, now)
       /\ IF LaughRunning(start, now)
          THEN UNCHANGED <<ctrl, laughs>>
          ELSE /\ ctrl' = setExpression(ctrl, "neutral", 250)
               /\ laughs' = laughs \ {start}
       /\ UNCHANGED <<timers, calls>>
       /\ ApiUnchanged


\* VRMLoader.load(): the model arrives and becomes this.vrm
\* with a mixer, on which the clip of ./animations/idle.vrma, if that file
\* loads, starts playing: vrma is the set of joints the clip has tracks for
LoadVRM(rig, vrma) ==
    /\ vrm = Null
    /\ vrm' = rig
    /\ mgr' = NoWeights
    /\ lastOp' = [name |-> "load", dirty |-> FALSE]
    /\ layer' = [layer EXCEPT !.vrma = vrma \cap rig.joints]
    /\ UNCHANGED ctrlVars

\* VRMLoader.dispose()
Dispose ==
    /\ vrm # Null
    /\ vrm' = Null
    /\ mgr' = NoWeights
    /\ lastOp' = [name |-> "dispose", dirty |-> mgr # NoWeights]
    /\ layer' = [layer EXCEPT !.vrma = {}]
    /\ UNCHANGED ctrlVars

\* A call of one VRMLoader setter by any caller.
CallSetter(name, result) ==
    /\ mgr' = result
    /\ lastOp' = [name |-> name, dirty |-> mgr # NoWeights]
    /\ UNCHANGED <<vrm, layer>>
    /\ UNCHANGED ctrlVars
SetHappy(x) == CallSetter("setHappy", setHappy(vrm, mgr, x))
SetSad(x) == CallSetter("setSad", setSad(vrm, mgr, x))
SetAngry(x) == CallSetter("setAngry", setAngry(vrm, mgr, x))
SetSurprised(x) == CallSetter("setSurprised", setSurprised(vrm, mgr, x))
SetMouthOpen(x) == CallSetter("setMouthOpen", setMouthOpen(vrm, mgr, x))
SetBlink(x) == CallSetter("setBlink", setBlink(vrm, mgr, x))
SetWink(isLeft) == CallSetter("setWink", setWink(vrm, mgr, isLeft))
ResetExpressions ==
    CallSetter("resetExpressions", VRMLoader_resetExpressions(vrm, mgr))

\* One frame of a blink machine alone, at the fixed frame period frameDt.
BlinkTick(res) ==
    /\ blink' = res.blink
    /\ anim' = [anim EXCEPT !.blinkValue = res.blinkValue]
    /\ mgr' = res.mgr
    /\ simTime' = simTime + frameDt
    /\ blinkStarts' = blinkStarts + (IF res.started THEN 1 ELSE 0)
    /\ lastGap' = IF res.started THEN blink.timer + frameDt ELSE lastGap
    /\ UNCHANGED <<vrm, lastOp, ctl, initialized, bones, pose, time, frameCount,
                   ctrl, phase, timers, laughs, now, calls, updates, cacheBuilds,
                   lastTick, frameDt, look, target, layer, otherVars>>
BlinkTickSmoothDamp(r) ==
    /\ ctl = "smoothDamp"
    /\ BlinkTick(updateBlinking(blink, anim.blinkValue, vrm, mgr, frameDt, r))
BlinkTickDeployed(r, r2) ==
    /\ ctl = "deployed"
    /\ BlinkTick(updateBlinkingDeployed(blink, anim.blinkValue, vrm, mgr, frameDt,
                                        r, r2))
BlinkTickMixer(r) ==
    /\ ctl = "mixer"
    /\ BlinkTick(updateBlinkingMixer(blink, anim.blinkValue, vrm, mgr, frameDt, r))

(***************************************************************************)
(* Initial states: the state the constructors leave.                       *)
(***************************************************************************)
FullRig == [joints |-> Joints, manager |-> TRUE, loaded |-> TRUE]
PartialRig == [joints |-> (CoreJoints \ {"neck", "upperChest"})
                          \cup {"leftUpperArm", "rightUpperArm", "leftHand"},
               manager |-> TRUE, loaded |-> TRUE]
HeadlessRig == [joints |-> Joints \ {"head"}, manager |-> TRUE, loaded |-> TRUE]
FacelessRig == [joints |-> Joints \ FingerJoints, manager |-> FALSE,
                loaded |-> TRUE]
Rigs == {FullRig, PartialRig, HeadlessRig, FacelessRig}

Frame60 == Div(TimeUnit, 60)

\* new AnimationController(vrmLoader) of variant c; t0 is the random start of
\* the blink timer, p0 the random start of the idle and secondary phases
InitController(c, t0, p0) ==
    /\ ctl = c
    /\ initialized = FALSE
    /\ bones = {}
    /\ pose = [j \in Joints |-> 0 - 1]
    /\ time = 0
    /\ frameCount = 0
    /\ ctrl = [state |-> "idle", isTalking |-> FALSE, talkTime |-> 0,
               current |-> "neutral", targetIntensity |-> 250]
    /\ anim = [expressionIntensity |-> IF c = "expressionOnly" THEN 200 ELSE 250,
               expressionVel |-> 0,
               talkIntensity |-> 0, talkVel |-> 0, blinkValue |-> 0,
               headX |-> 0, headY |-> 0, headVelX |-> 0, headVelY |-> 0]
    /\ timing = TimingTable
    /\ look = [target |-> <<0, 1400, 2000>>, smooth |-> <<0, 1400, 2000>>]
    /\ target = [headY |-> 0, headX |-> 0, neckX |-> 0, neckY |-> 0]
    /\ phase = [breath |-> 0, idle |-> p0, secondary |-> p0]
    /\ blink = [timer |-> IF c = "smoothDamp" THEN t0 ELSE 0,
                interval |-> IF c \in {"mixer", "expressionOnly"} THEN Ms(3000)
                             ELSE Ms(3500),
                isBlinking |-> FALSE, progress |-> 0, isDoubleBlink |-> FALSE]
    /\ timers = << >>
    /\ laughs = {}
    /\ now = 0
    /\ calls = 0
    /\ updates = 0
    /\ cacheBuilds = 0
    /\ lastTick = [deltaTime |-> 0, updatePhases |-> 0, smoothUpdate |-> 0,
                   updateExpressions |-> 0,
                   smoothTime |-> [ch \in SmoothedChannels |-> 0],
                   expression |-> "neutral", cleared |-> {}]
    /\ simTime = 0
    /\ blinkStarts = 0
    /\ lastGap = 0


\* no mixer has a clip, no frame has written a joint
NoLayers == [vrma |-> {}, mixamo |-> {}, idle |-> {}, pending |-> FALSE,
             clip |-> {}, procedural |-> {}]
LegJoints == {"leftUpperLeg", "rightUpperLeg", "leftLowerLeg", "rightLowerLeg"}
\* an animation file of the deployment: absent, a clip of the legs only, or a
\* clip of the whole body
FullBodyClip == Joints \ {"leftEye", "rightEye"}
ClipFiles == {{}, LegJoints, FullBodyClip}

InitLoader ==
    /\ vrm = Null
    /\ layer = NoLayers
    /\ mgr = NoWeights
    /\ lastOp = [name |-> "new", dirty |-> FALSE]
    /\ frameDt = 0

\* the application after construction: no model yet, smoothDamp controller
\* no damped channel is being driven alone
NoDamp == [fn |-> "none", smoothTime |-> 0, current |-> 0, target |-> 0,
           velocity |-> 0, deltaTime |-> 0, value |-> 0, newVelocity |-> 0,
           steps |-> 0]
\* the proxy has not started
NoRate == [server |-> "none", keySet |-> FALSE, now |-> 0,
           store |-> [ip \in {} |-> EmptyBag], log |-> [ip \in {} |-> EmptyBag],
           last |-> [ip |-> "", status |-> 0, forwarded |-> FALSE],
           advances |-> 0]
\* new VoiceController() with the key localStorage holds ("" for none)
NewVoice(key) ==
    [elevenLabsKey |-> key, useElevenLabs |-> key # "", isSpeaking |-> FALSE,
     phase |-> "idle", text |-> << >>, elevenLabs |-> FALSE, failure |-> "none",
     webSpeech |-> FALSE, spoken |-> "none", speaks |-> 0]
\* the page before new ChatController(...) has run
NewChat ==
    [constructed |-> FALSE, conversationHistory |-> << >>, isProcessing |-> FALSE,
     voiceEnabled |-> TRUE, input |-> "", disabled |-> FALSE, inFlight |-> 0,
     messages |-> << >>, requests |-> 0, typing |-> << >>, cancelled |-> 0,
     owed |-> FALSE, clears |-> 0, failed |-> FALSE]
Elsewhere == damp = NoDamp /\ proxy = NoRate /\ voice = NewVoice("") /\ chat = NewChat

InitConstructed == InitLoader /\ InitController("smoothDamp", 0, 0) /\ Elsewhere

(***************************************************************************)
(* VRMLoader alone: any caller, any order of setter calls.                 *)
(***************************************************************************)
SetterValues == {0 - 500, 1500, NaN}
LoaderRigs == {FullRig, FacelessRig}

NextLoader ==
    \/ \E rig \in LoaderRigs, clip \in ClipFiles : LoadVRM(rig, clip)
    \/ Dispose
    \/ \E x \in SetterValues : SetHappy(x)
    \/ \E x \in SetterValues : SetSad(x)
    \/ \E x \in SetterValues : SetAngry(x)
    \/ \E x \in SetterValues : SetSurprised(x)
    \/ \E x \in SetterValues : SetMouthOpen(x)
    \/ \E x \in SetterValues : SetBlink(x)
    \/ \E isLeft \in BOOLEAN : SetWink(isLeft)
    \/ ResetExpressions

SpecLoader == InitConstructed /\ [][NextLoader]_vars

\* C6 (as stated): every weight the expression manager holds lies in [0,1]
\* whatever value a caller passed to a VRMLoader setter, and without an
\* expression manager no weight is ever written.
C6_WeightsInUnitRange ==
    /\ \A c \in Channels : mgr[c] >= 0 /\ mgr[c] <= Scale
    /\ ~HasManager(vrm) => mgr = NoWeights

\* The part of C6 that the code keeps: finite values are clamped to [0,1], and
\* a call without an expression manager writes nothing.
C6_FiniteClamped ==
    /\ \A c \in Channels : IsNaN(mgr[c]) \/ (mgr[c] >= 0 /\ mgr[c] <= Scale)
    /\ ~HasManager(vrm) => mgr = NoWeights

\* C7: right after resetExpressions() every channel a setter can write reads 0,
\* whatever the setters wrote before, and resetting a second time changes
\* nothing.
WritableChannels == {"happy", "sad", "angry", "surprised", "aa", "blink",
                     "blinkLeft", "blinkRight"}
C7_ResetZeroesAll ==
    /\ lastOp.name = "resetExpressions" => \A c \in WritableChannels : mgr[c] = 0
    /\ LET once == VRMLoader_resetExpressions(vrm, mgr)
       IN  /\ VRMLoader_resetExpressions(vrm, once) = once
           /\ HasManager(vrm) => \A c \in WritableChannels : once[c] = 0
C7_Witness ==
    /\ lastOp.name = "resetExpressions"
    /\ lastOp.dirty
    /\ HasManager(vrm)
    /\ mgr = NoWeights


(***************************************************************************)
(* The blink machines alone, each run at one fixed frame period.           *)
(***************************************************************************)
MaxBlinkSeconds == 11
Variants == {"smoothDamp", "deployed", "mixer"}
BlinkFrames == {Frame60, Div(TimeUnit, 12), MaxDelta}
BlinkDraws == {0, 500, 999}
BlinkTimerStarts == {0, Ms(1998)}

InitBlink ==
    /\ vrm = FullRig
    /\ mgr = NoWeights
    /\ lastOp = [name |-> "load", dirty |-> FALSE]
    /\ layer = NoLayers
    /\ frameDt \in BlinkFrames
    /\ \E c \in Variants, t0 \in BlinkTimerStarts : InitController(c, t0, 0)
    /\ Elsewhere

BlinkRunning == simTime < MaxBlinkSeconds * TimeUnit
NextBlink ==
    \/ BlinkRunning /\ \E r \in BlinkDraws : BlinkTickSmoothDamp(r)
    \/ BlinkRunning /\ \E r \in BlinkDraws, r2 \in {0, 500} : BlinkTickDeployed(r, r2)
    \/ BlinkRunning /\ \E r \in BlinkDraws : BlinkTickMixer(r)

SpecBlink == InitBlink /\ [][NextBlink]_vars

\* C3 (as stated): in the smoothDamp controller the blink phase changes only
\* Open -> Closing -> Opening -> Open, at every frame period in (0, 0.1]:
\* Closing is entered from Open when timer >= interval, Opening only from
\* Closing, and Open is reached again only from Opening.
C3_PhaseOrder ==
    [][ctl = "smoothDamp" =>
         LET p == BlinkPhase(blink)
             q == BlinkPhase(blink')
         IN  \/ p = q
             \/ p = "Open" /\ q = "Closing" /\ blink.timer + frameDt >= blink.interval
             \/ p = "Closing" /\ q = "Opening"
             \/ p = "Opening" /\ q = "Open"]_vars

\* C4 (as stated): at dt = 1/60 two consecutive blinks start at least 2.5 s
\* and at most 6.5 s plus one frame apart, in every controller variant; the
\* blink count N after simulated time T then obeys the two linear bounds
\* that give 150 <= N <= 400 at T = 1000 s (the first blink starts after
\* 1.5 s at the earliest and before 3.5 s plus one frame at the latest); and
\* a blink starts only while no blink is in progress.
GapsWithin(minMs, maxMs, firstMinMs, firstMaxMs) ==
    /\ blinkStarts >= 2 => /\ lastGap >= Ms(minMs)
                           /\ lastGap <= Ms(maxMs) + Frame60
    /\ blinkStarts >= 1 => simTime >= Ms(firstMinMs) + (blinkStarts - 1) * Ms(minMs)
    /\ simTime <= Ms(firstMaxMs) + Frame60 + blinkStarts * (Ms(maxMs) + Frame60)
StartsOnlyWhenOpen == [][blinkStarts' > blinkStarts => ~blink.isBlinking]_vars
MaxCalls == 2
MaxUpdates == 3
Deltas == {MaxDelta, TimeUnit}
Intensities == {800}

InitApp ==
    /\ vrm = FullRig
    /\ mgr = NoWeights
    /\ lastOp = [name |-> "load", dirty |-> FALSE]
    /\ layer = NoLayers
    /\ frameDt = 0
    /\ InitController("smoothDamp", 0, 0)
    /\ Elsewhere

\* a timer that is due runs before the next frame and before a later call
CanCall == calls < MaxCalls /\ ~TimerDue
Next ==
    \/ updates < MaxUpdates /\ \E d \in Deltas : Tick(d, 500)
    \/ CanCall /\ \E st \in States : SetState(st)
    \/ CanCall /\ \E e \in Expressions, x \in Intensities : SetExpression(e, x)
    \/ CanCall /\ StopTalking
    \/ CanCall /\ \E type \in Reactions : PlayReaction(type)
    \/ FireTimer
    \/ LaughFrame

Spec == InitApp /\ [][Next]_vars


\* C1 (as stated): when a timer set by playReaction or stopTalking fires
\* after a newer API call (setState, setExpression, playReaction, or the
\* setState and setExpression of stopTalking), it leaves the expression, the
\* target intensity and the state as the newer call set them.
TimerFires == Len(timers') < Len(timers)
C1_NewerCallPreempts ==
    [][TimerFires =>
         \A i \in 1..Len(timers) :
            FirstDue(i) /\ calls > timers[i].epoch =>
               /\ ctrl'.current = ctrl.current
               /\ ctrl'.targetIntensity = ctrl.targetIntensity
               /\ ctrl'.state = ctrl.state]_vars

\* C2: after every completed tick, an emotion channel other than the one the
\* expression of that tick selects ('neutral' shows as a faint happy) is 0.
SelectedChannel(e) == IF e = "neutral" THEN "happy" ELSE e
C2_NoExpressionSticks ==
    frameCount >= 1 =>
        \A c \in EmotionChannels :
            mgr[c] # 0 => c = SelectedChannel(lastTick.expression)
C2_Witness ==
    /\ frameCount >= 2
    /\ lastTick.cleared # {}
    /\ mgr[SelectedChannel(lastTick.expression)] > 0

\* C5 (as stated): the mouth-open weight is in [0, 0.55] in every state,
\* laugh reactions included.
C5_MouthWithinCap == mgr["aa"] >= 0 /\ mgr["aa"] <= MouthCap


(***************************************************************************)
(* The render loop from construction on: it ticks before the model has     *)
(* loaded, the model that arrives may lack joints or the expression        *)
(* manager, and the frame times vary.                                      *)
(***************************************************************************)
RigDeltas == {0, Frame60, MaxDelta, Div(TimeUnit, 2), 2 * TimeUnit}

NextRig ==
    \/ \E rig \in Rigs, clip \in ClipFiles : LoadVRM(rig, clip)
    \/ updates < MaxUpdates /\ \E d \in RigDeltas : Tick(d, 500)

SpecRig == InitConstructed /\ [][NextRig]_vars

TickStep == updates' = updates + 1

\* C8 (as stated): a tick without a rig changes nothing of the controller
\* and writes nothing; the bone cache is built exactly once; and every tick
\* that comes after the tick that built it animates a frame.
C8_LazyInitOnce ==
    [][TickStep =>
         /\ vrm = Null => UNCHANGED <<mgr, initialized, bones, pose, time,
                                      frameCount, ctrl, anim, phase, blink>>
         /\ cacheBuilds' <= 1
         /\ vrm # Null /\ cacheBuilds >= 1 => frameCount' = frameCount + 1]_vars

\* C9 (as stated): on a rig missing any joints, every tick animates a frame:
\* each joint the rig has gets the values of that frame, and the expression
\* weights are written (a neutral face shows a faint happy).
C9_MissingJointsSkipped ==
    [][TickStep /\ vrm # Null =>
         /\ frameCount' = frameCount + 1
         /\ \A j \in vrm.joints : pose'[j] = frameCount'
         /\ HasManager(vrm) => mgr'["happy"] > 0]_vars

\* C10: the frame time handed to the phase advance, to smoothUpdate and to
\* updateExpressions (blink and talk timers) is at most 0.1 s, so the time
\* the blink timer has integrated is at most 0.1 s per animated frame,
\* whatever deltaTime update() was called with.
Stages == {"updatePhases", "smoothUpdate", "updateExpressions"}
C10_FrameTimeCapped ==
    /\ \A st \in Stages : lastTick[st] <= MaxDelta
    /\ simTime <= frameCount * MaxDelta
    /\ blink.timer <= frameCount * MaxDelta
C10_Witness ==
    /\ frameCount >= 2
    /\ lastTick.deltaTime > MaxDelta
    /\ lastTick.smoothUpdate = MaxDelta

(***************************************************************************)
(* The damped interpolator alone: one channel, fed back into itself frame  *)
(* after frame while its target moves, under both definitions of           *)
(* smoothDamp (with the overshoot guard, and without it).                  *)
(***************************************************************************)
MaxDampSteps == 3
DampFns == {"guarded", "plain"}
DampValues == {0 - 600, 0, 100, 1000}
DampTimes == {120, 150, 400}
DampDeltas == {Frame60, MaxDelta, Div(9 * TimeUnit, 10)}

InitDamp ==
    /\ InitLoader
    /\ InitController("smoothDamp", 0, 0)
    /\ \E f \in DampFns, x \in DampValues, st \in DampTimes :
          damp = [NoDamp EXCEPT !.fn = f, !.smoothTime = st, !.current = x,
                                !.value = x]
    /\ proxy = NoRate
    /\ voice = NewVoice("")
    /\ chat = NewChat

\* one frame of one channel: const r = smoothDamp(a.x, t.x, a.xVel, st, dt);
\* a.x = r.value; a.xVel = r.velocity
DampStep(tgt, deltaTime) ==
    /\ damp.steps < MaxDampSteps
    /\ \E r \in {IF damp.fn = "guarded"
                  THEN smoothDamp(damp.value, tgt, damp.newVelocity,
                                  damp.smoothTime, deltaTime)
                  ELSE smoothDampPlain(damp.value, tgt, damp.newVelocity,
                                       damp.smoothTime, deltaTime)} :
          damp' = [damp EXCEPT !.current = damp.value, !.target = tgt,
                               !.velocity = damp.newVelocity,
                               !.deltaTime = deltaTime, !.value = r.value,
                               !.newVelocity = r.velocity,
                               !.steps = damp.steps + 1]
    /\ UNCHANGED <<loaderVars, ctl, initialized, bones, pose, time, frameCount,
                   ctrl, anim, phase, blink, timers, laughs, now, calls, updates,
                   cacheBuilds, lastTick, simTime, blinkStarts, lastGap, frameDt,
                   timing, look, target, layer, proxy, voice, chat>>

NextDamp == \E t \in DampValues, d \in DampDeltas : DampStep(t, d)
SpecDamp == InitDamp /\ [][NextDamp]_vars

Between(a, x, b) == (a <= x /\ x <= b) \/ (b <= x /\ x <= a)
\* what the step gives before any guard
RawStep == smoothDampPlain(damp.current, damp.target, damp.velocity,
                           damp.smoothTime, damp.deltaTime).value
WouldCross == \/ damp.current < damp.target /\ RawStep > damp.target
              \/ damp.current > damp.target /\ RawStep < damp.target

\* C11: a step from rest (current # target, velocity 0, smoothTime > 0,
\* 0 < dt < 1) returns a value between current and target inclusive, and a
\* step that would cross the target returns the target itself with the
\* velocity recomputed as (newValue - target) / dt, which is 0.
C11_NoOvershoot ==
    damp.steps > 0 =>
        /\ (damp.current # damp.target /\ damp.velocity = 0)
              => Between(damp.current, damp.value, damp.target)
        /\ WouldCross => (damp.value = damp.target /\ damp.newVelocity = 0)
\* the same, for the guarded definition only
C11_GuardedNoOvershoot == damp.fn = "guarded" => C11_NoOvershoot
C11_GuardActs == damp.fn = "guarded" /\ WouldCross /\ damp.value = damp.target
C11_FromRest == damp.steps > 0 /\ damp.velocity = 0 /\ damp.current # damp.target
                /\ damp.value # damp.current

(***************************************************************************)
(* The smoothing times the smoothing stage uses, in the application.       *)
(***************************************************************************)
UsedBy(joints) == {lastTick.smoothTime[ch] :
                     ch \in {c \in SmoothedChannels : c[1] \in joints}}
AllAtLeast(A, B) == \A x \in A, y \in B : x >= y

\* C12: the smoothing times satisfy hips >= spine >= arms >= neck >= head in
\* every reachable state: the table never changes after construction, and the
\* times smoothUpdate passed in the last tick are, joint by joint, the time of
\* the joint's own role, chest and upper chest using the spine time.
C12_TimingOrder ==
    /\ timing = TimingTable
    /\ timing.hips >= timing.spine /\ timing.spine >= timing.arms
    /\ timing.arms >= timing.neck /\ timing.neck >= timing.head
    /\ frameCount > 0 =>
          /\ UsedBy({"hips"}) = {timing.hips}
          /\ UsedBy({"spine", "chest", "upperChest"}) = {timing.spine}
          /\ UsedBy(ArmJoints) = {timing.arms}
          /\ UsedBy({"neck"}) = {timing.neck}
          /\ UsedBy({"head"}) = {timing.head}
          /\ AllAtLeast(UsedBy({"hips"}), UsedBy({"spine", "chest", "upperChest"}))
          /\ AllAtLeast(UsedBy({"spine", "chest", "upperChest"}), UsedBy(ArmJoints))
          /\ AllAtLeast(UsedBy(ArmJoints), UsedBy({"neck"}))
          /\ AllAtLeast(UsedBy({"neck"}), UsedBy({"head"}))
C12_Witness == frameCount > 1 /\ calls > 0 /\ ctrl.state = "talking"
               /\ lastTick.smoothTime[<<"chest", "Y">>] = 350

(***************************************************************************)
(* The head following a look-at target that any caller may move.           *)
(***************************************************************************)
setLookAtTarget(lk, x, y, z) == [lk EXCEPT !.target = <<x, y, z>>]

SetLookAtTarget(p) ==
    /\ look' = setLookAtTarget(look, p[1], p[2], p[3])
    /\ calls' = calls + 1
    /\ UNCHANGED <<loaderVars, ctl, initialized, bones, pose, time, frameCount,
                   ctrl, anim, phase, blink, timers, laughs, now, updates,
                   cacheBuilds, lastTick, simTime, blinkStarts, lastGap, frameDt,
                   target, layer, otherVars>>

\* far right, below and close, above and behind to the left
LookPoints == {<<20000, 1400, 2000>>, <<0, 0 - 5000, 500>>,
               <<0 - 3000, 9000, 0 - 2000>>}
LookDeltas == {0, Frame60, MaxDelta}

NextLook ==
    \/ CanCall /\ \E p \in LookPoints : SetLookAtTarget(p)
    \/ updates < MaxUpdates /\ \E d \in LookDeltas : Tick(d, 500)
SpecLook == InitApp /\ [][NextLook]_vars

InRange(x, lo, hi) == ~IsNaN(x) /\ lo <= x /\ x <= hi

C13_TargetsInRange ==
    /\ InRange(target.headY, 0 - 600, 600)
    /\ InRange(target.headX, 0 - 300, 400)
\* C13: whatever the look-at target and however setLookAtTarget calls and
\* ticks interleave, the head yaw target is in [-0.6, 0.6], the head pitch
\* target in [-0.3, 0.4], and the smoothed head yaw and pitch stay in those
\* ranges too.
C13_HeadInRange ==
    /\ C13_TargetsInRange
    /\ InRange(anim.headY, 0 - 600, 600)
    /\ InRange(anim.headX, 0 - 300, 400)
\* the same over the frames that follow ticks of positive length only
C13_HeadInRangeAfterPositiveTicks ==
    (~IsNaN(anim.headVelX) /\ ~IsNaN(anim.headVelY)) => C13_HeadInRange

(***************************************************************************)
(* The deployed application: the clips the two mixers play (the legs-only  *)
(* idle clip, a Mixamo clip, the VRMA clip) and the procedural layer, as   *)
(* the joints each of them writes in a frame.                              *)
(***************************************************************************)
\* updateBody, updateArms, updateFingers, updateLookAt write the cached joints
\* that the rig has: every joint of armBones, which has no leg
ProceduralJoints == Joints \ LegJoints

\* the frame of App.animate in which update() finds the controller not yet
\* initialized: initialize() builds the mixer, plays the idle clip, caches
\* the joints, starts the search for a Mixamo file, and update() returns;
\* vrmLoader.update() then advances the loader's mixer
\* otherwise: mixer.update(dt), the procedural layers, vrmLoader.update()
AnimateDeployed ==
    /\ ctl = "deployed"
    /\ vrm # Null
    /\ updates' = updates + 1
    /\ IF ~initialized
       THEN /\ initialized' = TRUE
            /\ bones' = vrm.joints \cap ProceduralJoints
            /\ cacheBuilds' = cacheBuilds + 1
            /\ layer' = [layer EXCEPT !.idle = LegJoints \cap vrm.joints,
                                      !.pending = TRUE,
                                      !.clip = layer.vrma,
                                      !.procedural = {}]
       ELSE /\ layer' = [layer EXCEPT
                          !.clip = layer.idle \cup layer.mixamo \cup layer.vrma,
                          !.procedural = bones]
            /\ UNCHANGED <<initialized, bones, cacheBuilds>>
    /\ UNCHANGED <<loaderVars, ctl, pose, time, frameCount, ctrl, anim, phase,
                   blink, timers, laughs, now, calls, lastTick, simTime,
                   blinkStarts, lastGap, frameDt, look, target, otherVars>>

\* tryLoadMixamoAnimation() ends: no file of the four was found (clip = {}),
\* or the first one found starts playing, cross-fading from the idle clip
MixamoResolved(clip) ==
    /\ layer.pending
    /\ layer' = [layer EXCEPT !.pending = FALSE,
                              !.mixamo = clip \cap vrm.joints]
    /\ UNCHANGED <<loaderVars, ctrlVars>>

NextLayers ==
    \/ \E rig \in Rigs, clip \in ClipFiles : LoadVRM(rig, clip)
    \/ updates < MaxUpdates /\ AnimateDeployed
    \/ \E clip \in ClipFiles : MixamoResolved(clip)
InitLayers == InitLoader /\ InitController("deployed", 0, 0) /\ Elsewhere
SpecLayers == InitLayers /\ [][NextLayers]_vars

\* C14: in every frame each joint is written by at most one of the clip-based
\* layer (idle clip, Mixamo clip, VRMA clip) and the procedural layer.
C14_OneOwnerPerJoint == layer.clip \cap layer.procedural = {}
\* the same while only the idle clip plays
C14_IdleClipOnly ==
    (layer.mixamo = {} /\ layer.vrma = {}) => C14_OneOwnerPerJoint

(***************************************************************************)
(* Entering and leaving 'talking'.                                         *)
(***************************************************************************)
\* a tick that animated a frame
AnimatedTick == TickStep /\ frameCount' = frameCount + 1

\* C15: across setState('talking') issued from idle, the weight written to
\* 'happy' changes from one frame to the next by no more than that frame's
\* damped step of expressionIntensity, and talkIntensity never exceeds 1.
C15_NoJumpIntoTalking ==
    /\ [][(AnimatedTick /\ frameCount > 0 /\ ctrl.state = "talking"
             /\ ctrl.current = "happy")
            => Abs(mgr'.happy - mgr.happy)
                 <= Abs(anim'.expressionIntensity - anim.expressionIntensity)]_vars
    /\ [](anim.talkIntensity <= Scale)
\* the second half alone: talkIntensity stays within [0, 1]
C15_TalkIntensityBounded == anim.talkIntensity >= 0 /\ anim.talkIntensity <= Scale
\* once the frame before showed 'happy' too, the written weight moves with
\* expressionIntensity
C15_NoJumpWithinTalking ==
    [][(AnimatedTick /\ frameCount > 0 /\ ctrl.state = "talking"
         /\ ctrl.current = "happy" /\ lastTick.expression = "happy")
        => Abs(mgr'.happy - mgr.happy)
             <= Abs(anim'.expressionIntensity - anim.expressionIntensity)]_vars

(***************************************************************************)
(* The chat proxy (server.js, and the serverless function): requests from  *)
(* a few client keys, the passing of time, the periodic cleanup.           *)
(***************************************************************************)
MAX_REQUESTS_PER_MINUTE == 20
MAX_REQUESTS_PER_HOUR == 100
Minute == 60 * 1000
Hour == 60 * Minute

\* data.requests.filter(time => now - time < span)
Recent(requests, now0, span) ==
    [t \in {u \in DOMAIN requests : now0 - u < span} |-> requests[t]]

\* a limiter that records without ever refusing
AllowAll(store, ip, now0) ==
    [allowed |-> TRUE,
     store |-> (ip :> ((IF ip \in DOMAIN store THEN store[ip] ELSE EmptyBag)
                         (+) SetToBag({now0}))) @@ store]

\* a limiter that records the requests it refuses as well
RecordAll(store, ip, now0) ==
    LET requests == Recent(IF ip \in DOMAIN store THEN store[ip] ELSE EmptyBag,
                           now0, Hour)
    IN  [allowed |-> BagCardinality(Recent(requests, now0, Minute))
                        < MAX_REQUESTS_PER_MINUTE
                     /\ BagCardinality(requests) < MAX_REQUESTS_PER_HOUR,
         store |-> (ip :> (requests (+) SetToBag({now0}))) @@ store]

\* checkRateLimit(ip) at Date.now() = now0: the answer and the store after it
checkRateLimit(store, ip, now0) ==
    LET requests == Recent(IF ip \in DOMAIN store THEN store[ip] ELSE EmptyBag,
                           now0, Hour)
        requestsLastMinute == BagCardinality(Recent(requests, now0, Minute))
        requestsLastHour == BagCardinality(requests)
        allowed == requestsLastMinute < MAX_REQUESTS_PER_MINUTE
                   /\ requestsLastHour < MAX_REQUESTS_PER_HOUR
    IN  [allowed |-> allowed,
         store |-> (ip :> (IF allowed THEN requests (+) SetToBag({now0})
                           ELSE requests)) @@ store]

\* the setInterval callback of server.js
cleanup(store, now0) ==
    LET kept == [ip \in DOMAIN store |-> Recent(store[ip], now0, Hour)]
    IN  [ip \in {k \in DOMAIN kept : kept[k] # EmptyBag} |-> kept[ip]]

\* POST /api/chat from the client key ip: 429 when the limiter refuses, 500
\* without any upstream call when the server has no API key, otherwise the
\* request is forwarded upstream
Request(ip) ==
    /\ proxy.server # "none"
    /\ \E rc \in {checkRateLimit(proxy.store, ip, proxy.now)} :
          proxy' = [proxy EXCEPT
                     !.store = rc.store,
                     !.log = IF rc.allowed
                             THEN (ip :> ((IF ip \in DOMAIN proxy.log
                                           THEN proxy.log[ip] ELSE EmptyBag)
                                          (+) SetToBag({proxy.now}))) @@ proxy.log
                             ELSE proxy.log,
                     !.last = [ip |-> ip,
                               status |-> IF ~rc.allowed THEN 429
                                          ELSE IF proxy.keySet THEN 200 ELSE 500,
                               forwarded |-> rc.allowed /\ proxy.keySet]]
    /\ UNCHANGED <<loaderVars, ctl, initialized, bones, pose, time, frameCount,
                   ctrl, anim, phase, blink, timers, laughs, now, calls, updates,
                   cacheBuilds, lastTick, simTime, blinkStarts, lastGap, frameDt,
                   damp, timing, look, target, layer, voice, chat>>

Cleanup ==
    /\ proxy.server = "node"
    /\ cleanup(proxy.store, proxy.now) # proxy.store
    /\ proxy' = [proxy EXCEPT !.store = cleanup(proxy.store, proxy.now)]
    /\ UNCHANGED <<loaderVars, ctl, initialized, bones, pose, time, frameCount,
                   ctrl, anim, phase, blink, timers, laughs, now, calls, updates,
                   cacheBuilds, lastTick, simTime, blinkStarts, lastGap, frameDt,
                   damp, timing, look, target, layer, voice, chat>>

MaxAdvances == 5
Wait(d) ==
    /\ proxy.server # "none"
    /\ proxy.advances < MaxAdvances
    /\ proxy' = [proxy EXCEPT !.now = proxy.now + d, !.advances = proxy.advances + 1,
                            !.last = NoRate.last]
    /\ UNCHANGED <<loaderVars, ctl, initialized, bones, pose, time, frameCount,
                   ctrl, anim, phase, blink, timers, laughs, now, calls, updates,
                   cacheBuilds, lastTick, simTime, blinkStarts, lastGap, frameDt,
                   damp, timing, look, target, layer, voice, chat>>

IPs == {"10.0.0.1", "10.0.0.2"}
Waits == {30 * 1000, Minute, 56 * Minute}
MaxOther == 1
\* the first client keeps sending: time passes only once it has been refused;
\* the second sends single requests
Sent(ip) == IF ip \in DOMAIN proxy.log THEN BagCardinality(proxy.log[ip]) ELSE 0
MayRequest(ip) == ip = "10.0.0.1" \/ Sent(ip) < MaxOther
MayWait == ~checkRateLimit(proxy.store, "10.0.0.1", proxy.now).allowed

InitRate ==
    /\ InitLoader
    /\ InitController("smoothDamp", 0, 0)
    /\ damp = NoDamp
    /\ voice = NewVoice("")
    /\ chat = NewChat
    /\ \E cfg \in {<<"node", TRUE>>, <<"netlify", TRUE>>, <<"node", FALSE>>} :
          proxy = [NoRate EXCEPT !.server = cfg[1], !.keySet = cfg[2]]
NextRate ==
    \/ \E ip \in IPs : MayRequest(ip) /\ Request(ip)
    \/ Cleanup
    \/ \E d \in Waits : MayWait /\ Wait(d)
SpecRate == InitRate /\ [][NextRate]_vars

\* the requests of one key let through in the window [t, t + span)
LetThrough(ip, t, span) ==
    BagCardinality([u \in {v \in DOMAIN proxy.log[ip] : t <= v /\ v < t + span}
                      |-> proxy.log[ip][u]])

\* C16: for each client key, at most 20 requests are let through in any
\* 60-second window and at most 100 in any 60-minute window, and a request
\* beyond that is answered 429 and not forwarded upstream.
C16_RateLimited ==
    /\ \A ip \in DOMAIN proxy.log : \A t \in DOMAIN proxy.log[ip] :
          /\ LetThrough(ip, t, Minute) <= MAX_REQUESTS_PER_MINUTE
          /\ LetThrough(ip, t, Hour) <= MAX_REQUESTS_PER_HOUR
    /\ proxy.last.status = 429 => ~proxy.last.forwarded
    /\ proxy.last.forwarded =>
          /\ LetThrough(proxy.last.ip, proxy.now - Minute + 1, Minute)
                <= MAX_REQUESTS_PER_MINUTE
          /\ LetThrough(proxy.last.ip, proxy.now - Hour + 1, Hour)
                <= MAX_REQUESTS_PER_HOUR
C16_Witness ==
    /\ proxy.last.status = 429
    /\ LetThrough(proxy.last.ip, proxy.now - Hour + 1, Hour) = MAX_REQUESTS_PER_HOUR
    /\ LetThrough(proxy.last.ip, proxy.now - Minute + 1, Minute)
          < MAX_REQUESTS_PER_MINUTE

(***************************************************************************)
(* VoiceController.speak: the ElevenLabs path, the Web Speech path, and    *)
(* the events of the network and of the two players.                       *)
(***************************************************************************)
\* a text is a sequence of words; cleanTextForSpeech removes emojis and
\* 'lol', spells slang out, and trims
Words == {"hi", "gm", "lol", "emoji"}
RECURSIVE cleanTextForSpeech(_)
cleanTextForSpeech(text) ==
    IF text = << >> THEN << >>
    ELSE LET w == Head(text)
             rest == cleanTextForSpeech(Tail(text))
         IN  IF w \in {"emoji", "lol"} THEN rest
             ELSE IF w = "gm" THEN <<"good", "morning">> \o rest
             ELSE <<w>> \o rest

voiceElse == <<loaderVars, ctl, initialized, bones, pose, time, frameCount, ctrl,
               anim, phase, blink, timers, laughs, now, calls, updates,
               cacheBuilds, lastTick, simTime, blinkStarts, lastGap, frameDt,
               damp, timing, look, target, layer, proxy, chat>>

setElevenLabsKey(v, key) ==
    [v EXCEPT !.elevenLabsKey = key, !.useElevenLabs = key # ""]
SetElevenLabsKey(key) ==
    /\ voice.elevenLabsKey # key
    /\ voice' = setElevenLabsKey(voice, key)
    /\ UNCHANGED voiceElse

\* speakWithWebSpeech(text): the utterance is handed to the synthesizer
speakWithWebSpeech(v) == [v EXCEPT !.phase = "webSpeech", !.webSpeech = TRUE]
\* speak(text) up to its first await
speak(v, text) ==
    LET cleanText == cleanTextForSpeech(text)
        v0 == [v EXCEPT !.isSpeaking = FALSE, !.text = cleanText,
                        !.elevenLabs = FALSE, !.failure = "none",
                        !.webSpeech = FALSE, !.spoken = "none",
                        !.speaks = v.speaks + 1]
    IN  IF cleanText = << >> THEN [v0 EXCEPT !.phase = "resolved"]
        ELSE IF v.useElevenLabs /\ v.elevenLabsKey # ""
        THEN [v0 EXCEPT !.phase = "fetch", !.elevenLabs = TRUE]
        ELSE speakWithWebSpeech(v0)

MaxSpeaks == 2
MaxWords == 2
Texts == UNION {[1..n -> Words] : n \in 0..MaxWords}
Speak(text) ==
    /\ voice.phase \in {"idle", "resolved"}
    /\ voice.speaks < MaxSpeaks
    /\ voice' = speak(voice, text)
    /\ UNCHANGED voiceElse

\* the fetch of speakWithElevenLabs settles: a response that is ok, a response
\* that is not ("status"), or a rejection ("request"); a failure is caught by
\* speak, which goes on to Web Speech
FetchSettles(outcome) ==
    /\ voice.phase = "fetch"
    /\ voice' = IF outcome = "ok" THEN [voice EXCEPT !.phase = "blob"]
                ELSE speakWithWebSpeech([voice EXCEPT !.failure = outcome])
    /\ UNCHANGED voiceElse

\* response.blob() settles; on success audio.src is set and audio.play() called
BlobSettles(ok) ==
    /\ voice.phase = "blob"
    /\ voice' = IF ok THEN [voice EXCEPT !.phase = "playing"]
                ELSE speakWithWebSpeech([voice EXCEPT !.failure = "blob"])
    /\ UNCHANGED voiceElse

\* audio 'ended': the onended set by speakWithElevenLabs resolves the promise
AudioEnded ==
    /\ voice.phase = "playing"
    /\ voice' = [voice EXCEPT !.phase = "resolved", !.isSpeaking = FALSE,
                              !.spoken = "elevenLabs"]
    /\ UNCHANGED voiceElse

\* audio.play() rejects, or the audio element fires 'error': the rejection is
\* not awaited and onerror only clears isSpeaking; nothing settles the promise
AudioFails ==
    /\ voice.phase = "playing"
    /\ voice' = [voice EXCEPT !.phase = "pending", !.isSpeaking = FALSE,
                              !.failure = "playback"]
    /\ UNCHANGED voiceElse

\* the utterance fires 'end' or 'error': both handlers resolve the promise
UtteranceSettles(ended) ==
    /\ voice.phase = "webSpeech"
    /\ voice' = [voice EXCEPT !.phase = "resolved", !.isSpeaking = FALSE,
                              !.spoken = IF ended THEN "webSpeech" ELSE "none"]
    /\ UNCHANGED voiceElse

InitVoice ==
    /\ InitLoader
    /\ InitController("smoothDamp", 0, 0)
    /\ damp = NoDamp
    /\ proxy = NoRate
    /\ \E key \in {"", "sk"} : voice = NewVoice(key)
    /\ chat = NewChat
NextVoice ==
    \/ \E key \in {"", "sk"} : SetElevenLabsKey(key)
    \/ \E text \in Texts : Speak(text)
    \/ \E outcome \in {"ok", "status", "request"} : FetchSettles(outcome)
    \/ \E ok \in BOOLEAN : BlobSettles(ok)
    \/ AudioEnded
    \/ AudioFails
    \/ \E ended \in BOOLEAN : UtteranceSettles(ended)
SpecVoice == InitVoice /\ [][NextVoice]_vars

\* C17: speak with a non-empty cleaned text takes the ElevenLabs path only
\* when a key is set; whenever that path fails (request error, non-OK
\* response, playback failure) the text goes to Web Speech; and the promise
\* is never left with nothing that can settle it.
C17_FallbackOnFailure ==
    /\ [][(voice'.elevenLabs /\ voice'.speaks # voice.speaks)
            => (voice.useElevenLabs /\ voice.elevenLabsKey # "")]_vars
    /\ [](voice.failure # "none" => voice.webSpeech)
    /\ [](voice.phase # "pending")
\* the same for the failures that happen before playback starts
C17_FallbackBeforePlayback ==
    /\ [][(voice'.elevenLabs /\ voice'.speaks # voice.speaks)
            => (voice.useElevenLabs /\ voice.elevenLabsKey # "")]_vars
    /\ [](voice.failure \in {"request", "status", "blob"}
            => voice.webSpeech /\ voice.phase \in {"webSpeech", "resolved"})

(***************************************************************************)
(* When the blink interval is drawn.                                       *)
(***************************************************************************)
ReturnsToOpen == BlinkPhase(blink) # "Open" /\ BlinkPhase(blink') = "Open"
EntersClosing == BlinkPhase(blink) = "Open" /\ BlinkPhase(blink') # "Open"
DrawnInterval(b) == b.interval >= Ms(2500) /\ b.interval < Ms(6500)

\* C18 (as stated): in the smoothDamp controller the interval is drawn anew,
\* from [2.5 s, 6.5 s), each time the blink machine returns to Open: a step
\* that gives the interval a new value is a return to Open, and the wait to
\* the next blink is measured against the interval in force since then.
C18_DrawnOnReturnToOpen ==
    [][ctl = "smoothDamp" =>
         /\ blink'.interval # blink.interval
               => ReturnsToOpen /\ DrawnInterval(blink')
         /\ EntersClosing => blink.timer + frameDt >= blink.interval]_vars

\* C18 (amended): the interval is drawn anew, from [2.5 s, 6.5 s), each time
\* a blink starts (Open -> Closing), together with the reset of the timer;
\* a return to Open leaves interval and running timer as they are; and the
\* blink after starts in the first frame in which the time since the start
\* of the blink before has reached the interval drawn at that start.
C18_DrawnOnBlinkStart ==
    [][ctl = "smoothDamp" =>
         /\ blink'.interval # blink.interval => EntersClosing
         /\ EntersClosing => /\ DrawnInterval(blink')
                             /\ blink'.timer = 0
                             /\ blink.timer < blink.interval
                             /\ blink.timer + frameDt >= blink.interval
                             /\ blinkStarts >= 1 => lastGap' = blink.timer + frameDt
         /\ ReturnsToOpen => /\ blink'.interval = blink.interval
                             /\ blink'.timer = blink.timer + frameDt]_vars
C18_Witness ==
    /\ ctl = "smoothDamp"
    /\ blinkStarts >= 2
    /\ BlinkPhase(blink) = "Open"
    /\ blink.timer > 0
    /\ blink.timer < lastGap
    /\ blink.interval # lastGap

(***************************************************************************)
(* Ranges of the blink progress and of the blink value.                    *)
(***************************************************************************)
BlinkChannels == {"blink", "blinkLeft", "blinkRight"}
BlinkValuesInRange ==
    /\ \A c \in BlinkChannels : mgr[c] >= 0 /\ mgr[c] <= Scale
    /\ anim.blinkValue >= 0 /\ anim.blinkValue <= Scale
ProgressZeroOnClosing ==
    [][BlinkPhase(blink) = "Open" /\ BlinkPhase(blink') # "Open"
         => BlinkPhase(blink') = "Closing" /\ blink'.progress = 0]_vars

\* C19: in the smoothDamp controller and in the deployed controller, double
\* blinks included, the progress of a blink stays within [0, 1], is exactly
\* 0 when Closing is entered, and the blink value written stays in [0, 1].
C19_ProgressInRange ==
    /\ [](ctl \in {"smoothDamp", "deployed"} =>
            /\ blink.progress >= 0 /\ blink.progress <= ProgressOne
            /\ BlinkValuesInRange)
    /\ ProgressZeroOnClosing
\* the same with the deployed double blink left out of the progress range
C19_ProgressInRangeSingleBlink ==
    /\ [](ctl \in {"smoothDamp", "deployed"} =>
            /\ ~blink.isDoubleBlink =>
                  blink.progress >= 0 /\ blink.progress < ProgressOne
            /\ blink.isDoubleBlink =>
                  blink.progress >= 0 /\ blink.progress * 10 < 13 * ProgressOne
            /\ BlinkValuesInRange)
    /\ ProgressZeroOnClosing

(***************************************************************************)
(* The mouth in the frames after the controller has left 'talking'.        *)
(***************************************************************************)
\* what updateTalking would write in this frame if it went on while
\* talkIntensity decays
FadingMouth ==
    updateTalking([ctrl EXCEPT !.isTalking = TRUE], anim', vrm, NoWeights,
                  ClampDelta(now' - now)).mgr["aa"]
MouthOpenAfterTalking ==
    /\ ~ctrl.isTalking
    /\ laughs = {}
    /\ mgr["aa"] > 0

\* C20: in a frame after the controller has left 'talking' with the mouth
\* open, the mouth-open value is still written, scaled by the decaying
\* talkIntensity; it does not drop to 0 in the first frame after the change.
C20_MouthFadesOut ==
    [][AnimatedTick /\ MouthOpenAfterTalking => mgr'["aa"] = FadingMouth]_vars
\* what the frames do instead: outside 'talking' (and outside a laugh) every
\* frame leaves the mouth at 0, whatever talkIntensity still is
C20_MouthShutOutsideTalking ==
    [][AnimatedTick /\ ~ctrl.isTalking /\ laughs = {} => mgr'["aa"] = 0]_vars

(***************************************************************************)
(* The frame time that reaches the smoothing math.                         *)
(***************************************************************************)
AnimFinite == \A f \in DOMAIN anim : ~IsNaN(anim[f])

\* C21: a deltaTime of zero (or below) is raised to a small positive floor
\* before it reaches the smoothing math: every stage of a frame is handed a
\* frame time above 0, and no smoothed value or velocity is ever non-finite.
C21_DeltaFloored ==
    /\ frameCount >= 1 => \A st \in Stages : lastTick[st] > 0
    /\ AnimFinite
\* what update does instead: the frame time is capped from above only, and
\* reaches every stage as min(deltaTime, 0.1), zero included
C21_DeltaOnlyCapped ==
    frameCount >= 1 =>
        \A st \in Stages : lastTick[st] = MathMin(lastTick.deltaTime, MaxDelta)

(***************************************************************************)
(* The neck targets.                                                       *)
(***************************************************************************)
\* C22: in every frame the neck target is a fixed fraction of the head
\* target computed in that frame: yaw 0.35 and pitch 0.3 of the head's.
C22_NeckFollowsHeadTarget ==
    frameCount >= 1 => /\ target.neckY = Mul(target.headY, 350)
                       /\ target.neckX = Mul(target.headX, 300)
\* what calculateTargets computes: the same fractions of the head's smoothed
\* angles, as they stand when the frame begins
C22_NeckFollowsSmoothedHead ==
    [][AnimatedTick => /\ target'.neckY = Mul(anim.headY, 350)
                       /\ target'.neckX = Mul(anim.headX, 300)]_vars

(***************************************************************************)
(* The expression-only controller (src/unnamed/part_002): it has no        *)
(* smoothed channels; expressionIntensity is the weight the next frame     *)
(* writes.  ctrl.targetIntensity and the joints are not used by it.        *)
(***************************************************************************)
ExprOnly_setState(c, a, newState) ==
    IF c.state = newState THEN [ctrl |-> c, anim |-> a]
    ELSE CASE newState = "talking" ->
                [ctrl |-> [c EXCEPT !.state = newState, !.isTalking = TRUE,
                                    !.talkTime = 0, !.current = "happy"],
                 anim |-> [a EXCEPT !.expressionIntensity = 400]]
           [] newState = "thinking" ->
                [ctrl |-> [c EXCEPT !.state = newState, !.isTalking = FALSE,
                                    !.current = "neutral"],
                 anim |-> [a EXCEPT !.expressionIntensity = 300]]
           [] OTHER ->
                [ctrl |-> [c EXCEPT !.state = newState, !.isTalking = FALSE,
                                    !.current = "neutral"],
                 anim |-> [a EXCEPT !.expressionIntensity = 200]]
ExprOnly_setExpression(c, a, name, intensity) ==
    [ctrl |-> [c EXCEPT !.current = name],
     anim |-> [a EXCEPT !.expressionIntensity = intensity]]

ExprOnly_updateBlinking(b, v, m, dt, r) ==
    LET timer    == b.timer + dt
        progress == b.progress + dt * 10
        p        == Ratio(progress, ProgressOne)
        blinkVal == IF p < 300 THEN Ratio(p, 300)
                    ELSE Scale - Ratio(p - 300, 700)
    IN  IF b.isBlinking
        THEN IF progress >= ProgressOne
             THEN [blink |-> [b EXCEPT !.timer = timer, !.isBlinking = FALSE,
                                       !.progress = 0],
                   mgr |-> setBlink(v, m, 0)]
             ELSE [blink |-> [b EXCEPT !.timer = timer, !.progress = progress],
                   mgr |-> setBlink(v, m, blinkVal)]
        ELSE IF timer >= b.interval
        THEN [blink |-> [b EXCEPT !.timer = 0,
                                  !.interval = RandomInterval(2500, 3000, r),
                                  !.isBlinking = TRUE, !.progress = 0],
              mgr |-> m]
        ELSE [blink |-> [b EXCEPT !.timer = timer], mgr |-> m]

ExprOnly_updateTalking(c, v, m, dt) ==
    LET t         == c.talkTime + dt
        base      == Div(Sin(TalkAngle(t, 100)), 2) + 500
        variation == Div(Sin(TalkAngle(t, 63)) * 200, Scale)
        slow      == Div(Sin(TalkAngle(t, 37)) * 150, Scale)
        pause     == IF Sin(TalkAngle(t, 18)) > 200 THEN Scale ELSE 300
        mouthOpen == Div((Div(base * 350, Scale) + variation + slow) * pause, Scale)
    IN  IF ~c.isTalking THEN [talkTime |-> c.talkTime, mgr |-> m]
        ELSE [talkTime |-> t,
              mgr |-> setMouthOpen(v, m, MathMax(0, MathMin(500, mouthOpen)))]

ExprOnly_updateExpressions(c, a, b, v, m, dt, r) ==
    LET m0 == VRMLoader_resetExpressions(v, m)
        m1 == IF c.current \in {"happy", "sad", "surprised", "angry"}
              THEN VRMLoader_setExpression(v, m0, c.current, a.expressionIntensity)
              ELSE setHappy(v, m0, 100)
        bl == ExprOnly_updateBlinking(b, v, m1, dt, r)
        tk == ExprOnly_updateTalking(c, v, bl.mgr, dt)
    IN  [blink |-> bl.blink, talkTime |-> tk.talkTime, mgr |-> tk.mgr]

apiElse == <<vrm, lastOp, ctl, initialized, bones, pose, phase, cacheBuilds,
             lastTick, simTime, blinkStarts, lastGap, frameDt, look, target,
             layer, otherVars>>

ExprOnly_SetState(newState) ==
    /\ ctl = "expressionOnly"
    /\ \E res \in {ExprOnly_setState(ctrl, anim, newState)} :
          ctrl' = res.ctrl /\ anim' = res.anim
    /\ calls' = calls + 1
    /\ UNCHANGED <<mgr, timers, laughs, time, frameCount, blink, now, updates>>
    /\ UNCHANGED apiElse
ExprOnly_SetExpression(name, intensity) ==
    /\ ctl = "expressionOnly"
    /\ \E res \in {ExprOnly_setExpression(ctrl, anim, name, intensity)} :
          ctrl' = res.ctrl /\ anim' = res.anim
    /\ calls' = calls + 1
    /\ UNCHANGED <<mgr, timers, laughs, time, frameCount, blink, now, updates>>
    /\ UNCHANGED apiElse
\* setLookAtTarget(x, y, z) has an empty body
ExprOnly_SetLookAtTarget ==
    /\ ctl = "expressionOnly"
    /\ calls' = calls + 1
    /\ UNCHANGED <<mgr, timers, laughs, time, frameCount, blink, now, updates,
                   ctrl, anim>>
    /\ UNCHANGED apiElse
ExprOnly_Tick(deltaTime, r) ==
    /\ ctl = "expressionOnly"
    /\ vrm # Null
    /\ now' = now + deltaTime
    /\ updates' = updates + 1
    /\ time' = now'
    /\ frameCount' = frameCount + 1
    /\ \E ex \in {ExprOnly_updateExpressions(ctrl, anim, blink, vrm, mgr,
                                             ClampDelta(deltaTime), r)} :
          /\ mgr' = ex.mgr
          /\ blink' = ex.blink
          /\ ctrl' = [ctrl EXCEPT !.talkTime = ex.talkTime]
    /\ UNCHANGED <<anim, timers, laughs, calls>>
    /\ UNCHANGED apiElse

\* Either controller on a loaded rig, driven through setState, setExpression
\* and setLookAtTarget between frames.
ApiVariants == {"smoothDamp", "expressionOnly"}
ApiIntensities == {500, 900}
InitApi ==
    /\ vrm = FullRig
    /\ mgr = NoWeights
    /\ lastOp = [name |-> "load", dirty |-> FALSE]
    /\ layer = NoLayers
    /\ frameDt = 0
    /\ \E c \in ApiVariants : InitController(c, 0, 0)
    /\ Elsewhere
NextApi ==
    \/ ctl = "smoothDamp" /\ CanCall /\ \E st \in States : SetState(st)
    \/ ctl = "smoothDamp" /\ CanCall
          /\ \E e \in Expressions, x \in ApiIntensities : SetExpression(e, x)
    \/ ctl = "smoothDamp" /\ CanCall /\ \E p \in LookPoints : SetLookAtTarget(p)
    \/ updates < MaxUpdates /\ \E d \in Deltas : Tick(d, 500)
    \/ CanCall /\ \E st \in States : ExprOnly_SetState(st)
    \/ CanCall /\ \E e \in Expressions, x \in ApiIntensities :
                     ExprOnly_SetExpression(e, x)
    \/ CanCall /\ ExprOnly_SetLookAtTarget
    \/ updates < MaxUpdates /\ \E d \in Deltas : ExprOnly_Tick(d, 500)
SpecApi == InitApi /\ [][NextApi]_vars

ApiCall == calls' = calls + 1
\* C23: setState, setExpression and setLookAtTarget change flags and targets
\* only: a call leaves every smoothed value and velocity, the current
\* expressionIntensity and talkIntensity, the joints and the written weights
\* as they are; what is seen changes in later frames only.
C23_CallsKeepCurrentValues ==
    [][ApiCall => UNCHANGED <<anim, pose, mgr>>]_vars
\* the same for the smoothDamp controller alone, where a call in addition
\* leaves the smoothed look position alone
C23_SmoothDampCallsKeepCurrentValues ==
    [][ApiCall /\ ctl = "smoothDamp"
         => UNCHANGED <<anim, pose, mgr>> /\ look'.smooth = look.smooth]_vars

(***************************************************************************)
(* The phases of the organic signals over a run at one frame period: the   *)
(* smoothDamp controller's three phases, and the breathing phase of the    *)
(* deployed controller.                                                    *)
(***************************************************************************)
DeployedBreathRate == 200
\* a breathing phase that is never wrapped
AdvanceBreath(ph, dt) == Advance(ph, DeployedBreathRate, dt)
\* updateBreathing(dt) of src/js/animations.js
updateBreathing(ph, dt) ==
    LET next == Advance(ph, DeployedBreathRate, dt)
    IN  IF next > TwoPiMilli THEN next - TwoPiMilli ELSE next

\* one frame of the deployed controller's breathing
BreathTickDeployed ==
    /\ ctl = "deployed"
    /\ vrm # Null
    /\ now' = now + frameDt
    /\ time' = now'
    /\ updates' = updates + 1
    /\ frameCount' = frameCount + 1
    /\ simTime' = simTime + ClampDelta(frameDt)
    /\ phase' = [phase EXCEPT !.breath = updateBreathing(@, ClampDelta(frameDt))]
    /\ UNCHANGED <<vrm, mgr, lastOp, ctl, initialized, bones, pose, ctrl, anim,
                   blink, timers, laughs, calls, cacheBuilds, lastTick,
                   blinkStarts, lastGap, frameDt, look, target, layer, otherVars>>

MaxPhaseSeconds == 6
MaxPhaseCalls == 1
PhaseFrames == {Div(TimeUnit, 12), MaxDelta}
PhaseStarts == {0, 1000}
PhaseStates == {"talking", "thinking"}
PhaseRunning == simTime < MaxPhaseSeconds * TimeUnit
InitPhase ==
    /\ vrm = FullRig
    /\ mgr = NoWeights
    /\ lastOp = [name |-> "load", dirty |-> FALSE]
    /\ layer = NoLayers
    /\ frameDt \in PhaseFrames
    /\ \E c \in {"smoothDamp", "deployed"}, p0 \in PhaseStarts :
          /\ InitController(c, 0, p0)
          /\ c = "deployed" => p0 = 0
    /\ Elsewhere
NextPhase ==
    \/ PhaseRunning /\ Tick(frameDt, 500)
    \/ PhaseRunning /\ BreathTickDeployed
    \/ ctl = "smoothDamp" /\ calls < MaxPhaseCalls
          /\ \E st \in PhaseStates : SetState(st)
SpecPhase == InitPhase /\ [][NextPhase]_vars

PhaseKinds == {"breath", "idle", "secondary"}
RateOf(kind) ==
    CASE kind = "breath" -> IF ctl = "deployed" THEN DeployedBreathRate ELSE BreathRate
      [] kind = "idle" -> IF ctl = "deployed" THEN 0 ELSE IdleSpeed
      [] OTHER -> IF ctl = "deployed" THEN 0 ELSE SecondarySpeed
AdvancedBy(kind) ==
    phase'[kind] = Advance(phase[kind], RateOf(kind), ClampDelta(frameDt))

\* C24 (as stated): every phase is advanced by exactly rate * 2 pi * dt on
\* every tick, in both controllers, and changed by nothing else: it is never
\* reset and never decreases.
C24_PhasesOnlyAdvance ==
    [][/\ AnimatedTick => \A kind \in PhaseKinds : AdvancedBy(kind)
       /\ ~AnimatedTick => phase' = phase
       /\ \A kind \in PhaseKinds : phase'[kind] >= phase[kind]]_vars

\* C24 (amended): in the smoothDamp controller every phase is advanced by
\* exactly rate * 2 pi * dt on every tick, is changed by nothing else and
\* never decreases.  The deployed controller advances its breathing phase
\* by rate * 2 pi * dt on every tick and takes 2 pi off whenever the result
\* exceeds 2 pi, so that phase stays within [0, 2 pi] and, modulo 2 pi, is the
\* unwrapped phase.
C24_PhasesAdvanceOrWrap ==
    /\ [][/\ ~AnimatedTick => phase' = phase
          /\ AnimatedTick /\ ctl = "smoothDamp" =>
                \A kind \in PhaseKinds :
                    AdvancedBy(kind) /\ phase'[kind] >= phase[kind]
          /\ AnimatedTick /\ ctl = "deployed" =>
                /\ \/ AdvancedBy("breath")
                   \/ /\ phase'.breath + TwoPiMilli
                           = Advance(phase.breath, DeployedBreathRate,
                                     ClampDelta(frameDt))
                      /\ phase'.breath + TwoPiMilli > TwoPiMilli
                /\ phase'.idle = phase.idle
                /\ phase'.secondary = phase.secondary]_vars
    /\ [](ctl = "deployed" => phase.breath >= 0 /\ phase.breath <= TwoPiMilli)
\* the deployed breathing phase has just been wrapped
C24_Witness ==
    /\ ctl = "deployed"
    /\ simTime > 5 * TimeUnit
    /\ phase.breath < 100

(***************************************************************************)
(* Reactions as timed pulses: playReaction calls, the setTimeout callbacks *)
(* they leave behind and the laugh loop, with time flowing as long as a    *)
(* callback or a laugh loop is pending.                                    *)
(***************************************************************************)
PulseReactions == {"excited", "confused", "shy", "flirty", "laugh"}
Pending == timers # << >> \/ laughs # {}
ReactDeltas == {Div(TimeUnit, 2), TimeUnit}
MaxIdleTicks == 1
\* a laugh loop whose time is up ends in the animation frame it is called in
LaughDue == \E start \in laughs : ~LaughRunning(start, now)
ReactTick ==
    /\ updates < MaxIdleTicks \/ Pending
    /\ ~LaughDue
    /\ \E d \in ReactDeltas : Tick(d, 500)
\* a ReactTick step, as far as the clock shows it
TimePasses ==
    /\ updates < MaxIdleTicks \/ Pending
    /\ ~LaughDue
    /\ ~TimerDue
    /\ now' \in {now + d : d \in ReactDeltas}
    /\ updates' = updates + 1
NextReact ==
    \/ ReactTick
    \/ CanCall /\ \E type \in PulseReactions : PlayReaction(type)
    \/ FireTimer
    \/ LaughFrame
\* the browser runs a due timer, the next animation frame and the render loop
SpecReact ==
    /\ InitApp
    /\ [][NextReact]_vars
    /\ WF_<<now, updates>>(TimePasses)
    /\ WF_vars(FireTimer)
    /\ WF_vars(LaughFrame)

Baseline ==
    /\ ctrl.current = "neutral"
    /\ ctrl.targetIntensity = 250
    /\ ctrl.state = "idle"
\* what a playReaction call leaves behind: a laugh loop, or one more timeout:
\* setState('idle') 2500 ms after a 'flirty', or setExpression('neutral',
\* 0.25) after the delay of the pulse it has just set
PulseDelay ==
    CASE ctrl'.current = "surprised" -> 1000
      [] ctrl'.targetIntensity = 900 -> 1500
      [] OTHER -> 1200
RevertScheduled ==
    /\ Len(timers') = Len(timers) + 1
    /\ laughs' = laughs
    /\ LET revert == timers'[Len(timers')]
       IN  \/ /\ revert.cb = "idle"
              /\ ctrl'.state = "flirty"
              /\ revert.due = now + Ms(2500)
           \/ /\ revert.cb = "neutral"
              /\ ctrl'.targetIntensity \in {900, 600}
              /\ revert.due = now + Ms(PulseDelay)
LaughScheduled ==
    /\ laughs' = laughs \cup {now}
    /\ timers' = timers
    /\ ctrl'.current = "happy"
    /\ ctrl'.targetIntensity = 1000

\* C25: after playReaction('excited' | 'confused' | 'shy' | 'flirty' |
\* 'laugh') the controller returns to the baseline (expression 'neutral',
\* target intensity 0.25, state 'idle') once the calls have stopped: each
\* call schedules its revert 1500, 1000, 1200 or 2500 ms ahead (the laugh
\* loop runs 1500 ms), no revert runs before it is due, and every revert
\* eventually runs and leaves the baseline behind.
C25_ReactionsRevert ==
    /\ [][ApiCall => LaughScheduled \/ RevertScheduled]_vars
    /\ [][TimerFires => \E i \in 1..Len(timers) : timers[i].due <= now]_vars
    /\ [][laughs' # laughs /\ ~ApiCall =>
            \E start \in laughs : now - start >= Ms(LaughDuration)]_vars
    /\ (calls > 0) ~> (Baseline /\ ~Pending)
    /\ [](calls > 0 /\ ~Pending => Baseline)
\* a flirty pulse has run out: its callback has set the state back to idle
C25_Witness ==
    /\ calls > 0
    /\ ~Pending
    /\ Baseline
    /\ now >= Ms(2500)
    /\ lastTick.expression = "happy"


(***************************************************************************)
(* The talking flag and the controller state.                              *)
(***************************************************************************)
\* C26: in every reachable state isTalking is true exactly when the state is
\* 'talking', and the talk-intensity target smoothUpdate uses is 1 exactly
\* then, whatever the interleaving of setState, setExpression, playReaction,
\* stopTalking, frames and pending revert timers.
C26_TalkingFlagMatchesState ==
    /\ ctrl.isTalking <=> ctrl.state = "talking"
    /\ talkTarget(ctrl) = Scale <=> ctrl.state = "talking"
    /\ talkTarget(ctrl) \in {0, Scale}
\* the controller is talking while the revert of an earlier flirty pulse is
\* still pending
C26_Witness ==
    /\ ctrl.state = "talking"
    /\ ctrl.isTalking
    /\ \E i \in 1..Len(timers) : timers[i].cb = "idle"


(***************************************************************************)
(* ChatController (src/js/chat.js) with the VoiceController and the        *)
(* AnimationController it drives.  A reply is the text the API returned;   *)
(* conversationHistory is kept as the sequence of its roles.               *)
(***************************************************************************)
chatElse == <<vrm, lastOp, ctl, initialized, bones, pose, time, frameCount, anim,
              phase, blink, now, updates, cacheBuilds, lastTick, simTime,
              blinkStarts, lastGap, frameDt, look, target, layer, damp, timing,
              proxy>>

\* the animation controller as a handler sees it: ac is <<ctrl, timers, calls>>
Controller == [ctrl |-> ctrl, timers |-> timers, calls |-> calls]
TimerAt(ac, cb, delayMs) == [Timer(cb, delayMs) EXCEPT !.epoch = ac.calls + 1]
acSetState(ac, newState) ==
    [ac EXCEPT !.ctrl = setState(ac.ctrl, newState), !.calls = ac.calls + 1]
acStopTalking(ac) ==
    [ctrl |-> stopTalking(ac.ctrl),
     timers |-> ac.timers \o <<TimerAt(ac, "neutral", 500)>>,
     calls |-> ac.calls + 1]
acPlayReaction(ac, type) ==
    [ctrl |-> playReaction(ac.ctrl, type),
     timers |-> ac.timers \o
                [i \in 1..Len(playReactionTimers(type)) |->
                    [playReactionTimers(type)[i] EXCEPT !.epoch = ac.calls + 1]],
     calls |-> ac.calls + 1]
Becomes(ac) == ctrl' = ac.ctrl /\ timers' = ac.timers /\ calls' = ac.calls

\* VoiceController.stop(): the utterance being spoken is cancelled (its error
\* event is still to come), the audio being played is paused (it never ends)
stop(v) ==
    [v EXCEPT !.isSpeaking = FALSE,
              !.phase = CASE v.phase = "webSpeech" -> "cancelling"
                          [] v.phase = "playing"   -> "pending"
                          [] OTHER                 -> v.phase]

\* String.prototype.trim on the contents of the input field
Inputs == {"", "  ", "hi"}
trim(text) == IF text = "  " THEN "" ELSE text

\* new ChatController(...): init() ends with showWelcomeMessage()
showWelcomeMessage(ac) == acPlayReaction(ac, "flirty")
ChatConstructed ==
    /\ ~chat.constructed
    /\ chat' = [chat EXCEPT !.constructed = TRUE]
    /\ Becomes(showWelcomeMessage(Controller))
    /\ UNCHANGED <<mgr, laughs, voice, chatElse>>

\* the user edits the input field
TypeInput(text) ==
    /\ chat.constructed
    /\ chat.input = "" /\ text # ""
    /\ chat' = [chat EXCEPT !.input = text]
    /\ UNCHANGED <<ctrl, timers, calls, mgr, laughs, voice, chatElse>>

\* a sendMessage() that goes out whatever isProcessing says
SendUnguarded(c) ==
    IF trim(c.input) = "" THEN c
    ELSE [c EXCEPT !.input = "",
                   !.conversationHistory = Append(c.conversationHistory, "user"),
                   !.isProcessing = TRUE, !.disabled = TRUE,
                   !.inFlight = c.inFlight + 1,
                   !.messages = Append(c.conversationHistory, "user"),
                   !.requests = c.requests + 1]
\* sendMessage() up to its await: the request body is built from
\* conversationHistory as it stands when fetch is called
sendMessage(c) ==
    IF trim(c.input) = "" \/ c.isProcessing THEN c
    ELSE [c EXCEPT !.input = "",
                   !.conversationHistory = Append(c.conversationHistory, "user"),
                   !.isProcessing = TRUE, !.disabled = TRUE,
                   !.inFlight = c.inFlight + 1,
                   !.messages = Append(c.conversationHistory, "user"),
                   !.requests = c.requests + 1]
MaxRequests == 2
SendMessage ==
    /\ chat.constructed
    /\ chat.requests < MaxRequests
    /\ chat' = sendMessage(chat)
    /\ IF chat'.requests > chat.requests THEN Becomes(acSetState(Controller, "thinking"))
       ELSE UNCHANGED <<ctrl, timers, calls>>
    /\ UNCHANGED <<mgr, laughs, voice, chatElse>>

\* typeMessage(text) up to the start of its interval; a speak() whose text
\* cleans to nothing has resolved at once, and its then-callback runs as soon
\* as the handler returns
Replies == {<<"hi">>, <<"lol">>}
typeMessage(c, v, ac, text) ==
    LET speaks == c.voiceEnabled
        v1 == IF speaks THEN speak(stop(v), text) ELSE v
        a1 == IF speaks THEN ac ELSE acSetState(ac, "talking")
        silent == speaks /\ v1.phase = "resolved"
    IN  [chat |-> [c EXCEPT !.typing = Append(c.typing, text),
                            !.cancelled = c.cancelled +
                               (IF speaks /\ v.phase \in {"webSpeech", "cancelling"}
                                THEN 1 ELSE 0),
                            !.owed = ~silent],
         voice |-> v1,
         ac |-> IF silent THEN acStopTalking(a1) ELSE a1]
handleResponse(c, v, ac, text) ==
    typeMessage([c EXCEPT !.conversationHistory = Append(c.conversationHistory,
                                                         "assistant")],
                v, acSetState(ac, "talking"), text)
handleError(c, v, ac) == [chat |-> c, voice |-> v, ac |-> acSetState(ac, "idle")]

\* the fetch of callClaudeAPI settles and sendMessage() runs to its end:
\* "ok" is a reply with text; "failed" is a status that is not ok, a rejection,
\* or a 200 without content (handleResponse throws on its first line)
Outcomes == {"ok", "failed"}
\* replies being typed out at the same time
MaxTyping == 1
ResponseArrives(outcome, text) ==
    /\ chat.inFlight > 0
    /\ voice.phase \notin {"fetch", "blob"}
    /\ Len(chat.typing) < MaxTyping
    /\ \E r \in {IF outcome = "ok"
                 THEN handleResponse(chat, voice, Controller, text)
                 ELSE handleError(chat, voice, Controller)} :
          /\ chat' = [r.chat EXCEPT !.isProcessing = FALSE, !.disabled = FALSE,
                                    !.inFlight = chat.inFlight - 1,
                                    !.failed = chat.failed \/ outcome # "ok"]
          /\ voice' = r.voice
          /\ Becomes(r.ac)
    /\ UNCHANGED <<mgr, laughs, chatElse>>

\* triggerReactionFromContent(text); flirty is the Math.random() < 0.2 draw
reactionOf(text, flirty) ==
    CASE text = <<"lol">> -> "laugh"
      [] flirty            -> "flirty"
      [] OTHER             -> "none"
\* the interval of a typeMessage() reaches the end of its text
TypingEnds(i, flirty) ==
    /\ i \in 1..Len(chat.typing)
    /\ LET type == reactionOf(chat.typing[i], flirty)
           a1 == IF ~chat.voiceEnabled THEN acStopTalking(Controller)
                 ELSE Controller
           a2 == IF type = "none" THEN a1 ELSE acPlayReaction(a1, type)
       IN  /\ Becomes(a2)
           /\ chat' = [chat EXCEPT !.typing = Without(chat.typing, i),
                                   !.owed = chat.owed /\ chat.voiceEnabled]
           /\ IF type = "laugh"
              THEN /\ laughs' = laughs \cup {now}
                   /\ mgr' = animateLaugh(vrm, mgr, now, now)
              ELSE UNCHANGED <<mgr, laughs>>
    /\ UNCHANGED <<voice, chatElse>>

ToggleVoice ==
    /\ chat.constructed
    /\ chat' = [chat EXCEPT !.voiceEnabled = ~chat.voiceEnabled]
    /\ voice' = IF chat.voiceEnabled THEN stop(voice) ELSE voice
    /\ UNCHANGED <<ctrl, timers, calls, mgr, laughs, chatElse>>

MaxClears == 1
ClearHistory ==
    /\ chat.constructed
    /\ chat.clears < MaxClears
    /\ chat' = [chat EXCEPT !.conversationHistory = << >>,
                            !.clears = chat.clears + 1]
    /\ Becomes(showWelcomeMessage(Controller))
    /\ UNCHANGED <<mgr, laughs, voice, chatElse>>

\* audio 'play' or utterance 'start': onSpeakStart
SpeechStarts ==
    /\ voice.phase \in {"playing", "webSpeech"}
    /\ ~voice.isSpeaking
    /\ voice' = [voice EXCEPT !.isSpeaking = TRUE]
    /\ Becomes(acSetState(Controller, "talking"))
    /\ UNCHANGED <<chat, mgr, laughs, chatElse>>

\* a promise of speak() resolves after onSpeakEnd has run: stopTalking() is
\* called by onSpeakEnd and again by the then-callback of typeMessage
SpeechResolves(v) ==
    /\ voice' = v
    /\ Becomes(acStopTalking(acStopTalking(Controller)))
    /\ chat' = [chat EXCEPT !.owed = FALSE]
    /\ UNCHANGED <<mgr, laughs, chatElse>>
ChatAudioEnded ==
    /\ voice.phase = "playing"
    /\ voice.isSpeaking
    /\ SpeechResolves([voice EXCEPT !.phase = "resolved", !.isSpeaking = FALSE,
                                    !.spoken = "elevenLabs"])
ChatUtteranceSettles ==
    /\ voice.phase \in {"webSpeech", "cancelling"}
    /\ SpeechResolves([voice EXCEPT !.phase = "resolved", !.isSpeaking = FALSE,
                                    !.spoken = IF voice.isSpeaking THEN "webSpeech"
                                               ELSE "none"])
\* the error event of an utterance that a later speak() cancelled
CancelledSettles ==
    /\ chat.cancelled > 0
    /\ voice' = [voice EXCEPT !.isSpeaking = FALSE]
    /\ Becomes(acStopTalking(acStopTalking(Controller)))
    /\ chat' = [chat EXCEPT !.owed = FALSE, !.cancelled = chat.cancelled - 1]
    /\ UNCHANGED <<mgr, laughs, chatElse>>
\* audio.play() rejects (nothing listens), or the audio element fires 'error'
\* (audio.onerror runs onSpeakEnd); the promise stays pending either way
ChatAudioFails(errorEvent) ==
    /\ voice.phase = "playing"
    /\ voice' = [voice EXCEPT !.phase = "pending", !.isSpeaking = FALSE,
                              !.failure = "playback"]
    /\ IF errorEvent
       THEN /\ Becomes(acStopTalking(Controller))
            /\ chat' = [chat EXCEPT !.owed = FALSE]
       ELSE UNCHANGED <<ctrl, timers, calls, chat>>
    /\ UNCHANGED <<mgr, laughs, chatElse>>

\* No time passes in this specification: the timers the handlers set stay
\* pending.
InitChat ==
    /\ vrm = Null
    /\ mgr = NoWeights
    /\ lastOp = [name |-> "load", dirty |-> FALSE]
    /\ layer = NoLayers
    /\ frameDt = 0
    /\ InitController("smoothDamp", 0, 0)
    /\ damp = NoDamp
    /\ proxy = NoRate
    /\ \E key \in {"", "sk"} : voice = NewVoice(key)
    /\ chat = NewChat
VoiceEvents ==
    \/ \E outcome \in {"ok", "status"} : FetchSettles(outcome)
    \/ \E ok \in BOOLEAN : BlobSettles(ok)
    \/ SpeechStarts
    \/ ChatAudioEnded
    \/ ChatUtteranceSettles
    \/ CancelledSettles
    \/ \E errorEvent \in BOOLEAN : ChatAudioFails(errorEvent)
Arrivals == \E outcome \in Outcomes, text \in Replies : ResponseArrives(outcome, text)
\* the Math.random() draws of triggerReactionFromContent that are followed
FlirtyDraws == {FALSE}
Typed == \E i \in 1..Len(chat.typing), flirty \in FlirtyDraws : TypingEnds(i, flirty)
NextChat ==
    \/ ChatConstructed
    \/ \E text \in Inputs : TypeInput(text)
    \/ SendMessage
    \/ Arrivals
    \/ Typed
    \/ ToggleVoice
    \/ ClearHistory
    \/ VoiceEvents
\* the network, the players and the typing interval are not held back
SpecChat ==
    /\ InitChat /\ [][NextChat]_vars
    /\ WF_vars(Arrivals) /\ WF_vars(Typed) /\ WF_vars(VoiceEvents)


\* C27 (as stated): whenever the chat flow has put the controller into
\* 'talking' (handleResponse / typeMessage), stopTalking() is eventually
\* called, with the voice on, off, toggled while the reply is being typed or
\* spoken, and when a later speak() cancels an earlier one.
C27_TalkingIsStopped == chat.owed ~> ~chat.owed


\* C28: at most one /api/chat request is in flight at any time; a
\* sendMessage() while isProcessing is true sends nothing and leaves
\* conversationHistory and the input field as they are, whatever the field
\* holds; and once the request has completed, with a reply or with an error,
\* isProcessing is false and the send button is enabled again.
C28_OneRequestInFlight ==
    /\ chat.inFlight <= 1
    /\ chat.isProcessing =>
          \A text \in Inputs : sendMessage([chat EXCEPT !.input = text])
                                  = [chat EXCEPT !.input = text]
    /\ chat.inFlight = 0 => ~chat.isProcessing /\ ~chat.disabled
    /\ chat.inFlight = 1 => chat.isProcessing /\ chat.disabled
\* the second request is in flight and the user has typed the next message
C28_Witness ==
    /\ chat.isProcessing
    /\ chat.requests = MaxRequests
    /\ chat.input = "hi"
    /\ chat.conversationHistory = <<"user", "assistant", "user">>

\* C29 (as stated): the messages sent to the API alternate between the two
\* roles and start with 'user', after any sequence of sendMessage() outcomes
\* and of clearHistory().
Alternates(messages) ==
    \A i \in 1..Len(messages) :
       messages[i] = IF i % 2 = 1 THEN "user" ELSE "assistant"
C29_HistoryAlternates == Alternates(chat.messages)
\* what the code keeps: a request carries the message just typed as its last
\* entry, and while no request has failed and the history has not been
\* cleared, the roles alternate
C29_AlternatesWithoutFailure ==
    /\ chat.messages # << >> => chat.messages[Len(chat.messages)] = "user"
    /\ ~chat.failed /\ chat.clears = 0 => Alternates(chat.messages)
                                          /\ Alternates(chat.conversationHistory)


(***************************************************************************)
(* The rate limiter: what a refusal and a cleanup leave behind.            *)
(***************************************************************************)
\* the limits as the requests let through so far have it
WithinLimits(ip) ==
    ip \in DOMAIN proxy.log =>
       /\ LetThrough(ip, proxy.now - Minute + 1, Minute) < MAX_REQUESTS_PER_MINUTE
       /\ LetThrough(ip, proxy.now - Hour + 1, Hour) < MAX_REQUESTS_PER_HOUR
\* C30: a request refused by checkRateLimit is not recorded, so the store
\* holds only requests that were let through; a client, however often it was
\* refused, is allowed exactly when fewer than 20 of the requests it got
\* through fall in the last 60 seconds and fewer than 100 in the last hour;
\* and a cleanup run changes the outcome of no later check.
C30_RefusalsLeaveNoTrace ==
    /\ \A ip \in DOMAIN proxy.store :
          /\ ip \in DOMAIN proxy.log
          /\ proxy.store[ip] \sqsubseteq proxy.log[ip]
    /\ \A ip \in IPs :
          checkRateLimit(proxy.store, ip, proxy.now).allowed <=> WithinLimits(ip)
    /\ \A ip \in IPs, d \in Waits \cup {0} :
          checkRateLimit(cleanup(proxy.store, proxy.now), ip, proxy.now + d).allowed
             = checkRateLimit(proxy.store, ip, proxy.now + d).allowed
\* the client that was refused and kept sending has been let through again
C30_Witness ==
    /\ Sent("10.0.0.1") > MAX_REQUESTS_PER_MINUTE
    /\ proxy.last.ip = "10.0.0.1"
    /\ proxy.last.status # 429
    /\ proxy.server = "node"

====
